---- MODULE Spec2Model ----
(***************************************************************************)
(* baton-airbyte: the Airbyte client (token manager, endpoint adapters)    *)
(* and the connector's resource syncers (organization, workspace, user).   *)
(*                                                                         *)
(* A handler call (List, Grants, Validate, ...) is one action.  Inside it  *)
(* the client state is threaded through the operators as a record          *)
(*     c == [tok, exp, reqs]                                               *)
(* (accessToken, tokenExpiry, and the HTTP requests sent so far by this    *)
(* call), and the environment of the call is a record                      *)
(*     e == [now, failAt, issued, remote]                                  *)
(* (wall clock, the ordinal of the HTTP request the transport fails, the   *)
(* token the exchange endpoint answers with, the remote platform's data).  *)
(***************************************************************************)
EXTENDS Integers, Sequences, FiniteSets, TLC

VARIABLES
    now,                    \* wall-clock time, in seconds since the epoch
    accessToken,            \* Client.accessToken
    tokenExpiry,            \* Client.tokenExpiry
    workspacesWithOrgIDMap, \* package-level workspace -> organization index
    remote,                 \* the remote platform's data
    tokens,                 \* the page tokens List has returned so far
    sessions,               \* each with the index its listing pass built
    build,                  \* how the latest build phase ended
    last                    \* the last handler call: inputs, requests, results

vars == <<now, accessToken, tokenExpiry, workspacesWithOrgIDMap, remote,
          tokens, sessions, build, last>>

------------------------------------------------------------------------------
(* Bounds of the model. *)

MaxNow == 2      \* the clock runs over 0..MaxNow
MaxFail == 5     \* the transport may fail the 1st..MaxFail-th request of a call

------------------------------------------------------------------------------
(* Time. *)

\* ensureValidToken: time.Now().Add(30*time.Second)
TokenBuffer == 30

\* time.Time{}: the zero time of an unset tokenExpiry lies before the epoch
ZeroTime == -1

\* the exp values the exchange endpoint may put in a token: an expired one,
\* and the ones around now + TokenBuffer for every clock value
ExpValues == {0} \cup (TokenBuffer .. TokenBuffer + MaxNow + 1)

------------------------------------------------------------------------------
(* Tokens.  A token is a string, modelled as a sequence of characters; a   *)
(* character other than "." stands for a run of text:                      *)
(*   Dot     "."                                                           *)
(*   Bang    a character outside the base64url alphabet                    *)
(*   Pad     "=" padding (RawURLEncoding rejects it)                       *)
(*   Raw     base64url text of bytes that are not JSON (a signature)       *)
(*   Obj     base64url text of a JSON object without "exp" (a header)      *)
(*   StrExp  base64url text of a JSON object whose "exp" is a string       *)
(*   n >= 0  base64url text of the JSON object {"exp": n}                  *)

Dot == -1
Bang == -2
Pad == -3
Raw == -4
Obj == -5
StrExp == -6

\* the empty string
NoToken == << >>

JWT(n) == <<Obj, Dot, n, Dot, Raw>>

\* what the token-exchange endpoint may answer with (TokenResponse.AccessToken)
IssuedTokens ==
    {JWT(n) : n \in ExpValues}
    \cup { <<Obj, Dot, Obj, Dot, Raw>>,                   \* claims without exp
           NoToken,                                       \* empty access_token
           <<Obj, Dot, TokenBuffer + 1>>,                 \* two segments
           <<Obj, Dot, TokenBuffer + 1, Dot, Raw, Dot, Raw>>, \* four segments
           <<Obj, Dot, Bang, Dot, Raw>>,                  \* not base64url
           <<Obj, Dot, TokenBuffer + 1, Pad, Dot, Raw>>,  \* padded base64url
           <<Obj, Dot, Raw, Dot, Raw>>,                   \* claims not JSON
           <<Obj, Dot, Dot, Raw>>,                        \* empty claims
           <<Obj, Dot, StrExp, Dot, Raw>> }               \* exp of wrong type

\* strings.Split(s, "."): the substrings between the dots, at least one
RECURSIVE Split(_)
Split(s) ==
    IF \A i \in 1..Len(s) : s[i] # Dot
    THEN <<s>>
    ELSE LET i == CHOOSE k \in 1..Len(s) :
                      s[k] = Dot /\ \A j \in 1..(k - 1) : s[j] # Dot
         IN  <<SubSeq(s, 1, i - 1)>> \o Split(SubSeq(s, i + 1, Len(s)))

\* base64.RawURLEncoding.DecodeString: fails on a character outside the
\* alphabet and on padding; otherwise yields the bytes (kept as the runs)
DecodeString(seg) ==
    IF \E i \in 1..Len(seg) : seg[i] \in {Bang, Pad, Dot}
    THEN [err |-> TRUE, bytes |-> << >>]
    ELSE [err |-> FALSE, bytes |-> seg]

\* an unmarshal that fails on an object without exp
UnmarshalRequiringExp(bytes) ==
    IF Len(bytes) # 1 \/ bytes[1] \in {Raw, StrExp, Obj}
    THEN [err |-> TRUE, ExpiresAt |-> 0]
    ELSE [err |-> FALSE, ExpiresAt |-> bytes[1]]

\* json.Unmarshal(claimsJSON, &claims) into JWTClaims{ExpiresAt int64 `exp`}:
\* one JSON object is accepted, a missing exp leaves ExpiresAt 0; empty
\* input, non-JSON bytes, trailing data and an exp of another type fail
Unmarshal(bytes) ==
    IF Len(bytes) # 1 \/ bytes[1] \in {Raw, StrExp}
    THEN [err |-> TRUE, ExpiresAt |-> 0]
    ELSE IF bytes[1] = Obj
         THEN [err |-> FALSE, ExpiresAt |-> 0]
         ELSE [err |-> FALSE, ExpiresAt |-> bytes[1]]

\* a reading of exp as milliseconds
UnixMilli(sec) == sec * 1000 + 1

\* time.Unix(sec, 0)
Unix(sec) == sec

------------------------------------------------------------------------------
(* Errors are chains of messages: << >> is nil, fmt.Errorf("m: %w", err)   *)
(* puts m in front of err.                                                 *)

Nil == << >>
Wrap(msg, err) == <<msg>> \o err
ErrTransport == <<"transport">>

------------------------------------------------------------------------------
(* The client. *)

\* the path templates of the client and the placeholders each contains
getAccessTokenPath == "/api/v1/applications/token"
listWorkspacesPath == "/api/public/v1/workspaces"
listUsersPath == "/api/public/v1/users"
listOrganizationsPath == "/api/public/v1/organizations"
listPermissionsPath == "/api/public/v1/permissions"
listWorkspacesByOrganizationPath == "/api/v1/workspaces/list_by_organization_id"
listUsersWithAccessInfoPath == "/api/v1/users/list_access_info_by_workspace_id"

getWorkspacePath == "/api/public/v1/workspaces/{workspaceId}"

\* the {name} placeholders of a path template: only getWorkspacePath, which
\* no method requests, has one
Placeholders(pathTemplate) ==
    IF pathTemplate = getWorkspacePath THEN {"workspaceId"} ELSE {}

\* no parameters (a nil map)
NoParams == << >>

\* Client.buildResourceURL: a path parameter is substituted only where the
\* template holds its placeholder; the query parameters are set as given
buildResourceURL(pathTemplate, pathParams, queryParams) ==
    [path |-> pathTemplate,
     subst |-> [k \in (DOMAIN pathParams) \cap Placeholders(pathTemplate)
                    |-> pathParams[k]],
     query |-> queryParams]

\* a transport call that sends a failed request a second time
httpDoRetrying(c, e, req) ==
    LET c1 == [c EXCEPT !.reqs = Append(@, req)]
    IN  IF Len(c1.reqs) = e.failAt
        THEN [c |-> [c1 EXCEPT !.reqs = Append(@, req)], err |-> Nil]
        ELSE [c |-> c1, err |-> Nil]

\* Client.doRequest, lines 313-334: build the request, send it; the
\* transport fails the e.failAt-th request of the call
httpDo(c, e, req) ==
    LET c1 == [c EXCEPT !.reqs = Append(@, req)]
    IN  [c |-> c1, err |-> IF Len(c1.reqs) = e.failAt THEN ErrTransport ELSE Nil]

\* a condition that forgets the 30-second buffer
needsRefreshWithoutBuffer(tok, exp, t) == tok = NoToken \/ t > exp

\* a refresh condition that also refreshes a token expiring in exactly 30 s
needsRefreshInclusive(tok, exp, t) == tok = NoToken \/ t + TokenBuffer >= exp

\* the condition of ensureValidToken, line 78
needsRefresh(tok, exp, t) == tok = NoToken \/ t + TokenBuffer > exp

RECURSIVE doRequest(_, _, _, _, _, _)

\* Client.GetAccessToken, lines 114-136: d is what the exchange request
\* returned, accessTokenText the token of the response body
parseAccessToken(d, accessTokenText) ==
    LET parts == Split(accessTokenText)
        dec == DecodeString(parts[2])
        claims == Unmarshal(dec.bytes)
    IN  IF d.err # Nil
        THEN [c |-> d.c, token |-> NoToken, expiry |-> ZeroTime, err |-> d.err]
        ELSE IF Len(parts) # 3
        THEN [c |-> d.c, token |-> NoToken, expiry |-> ZeroTime,
              err |-> <<"invalid JWT token format">>]
        ELSE IF dec.err
        THEN [c |-> d.c, token |-> NoToken, expiry |-> ZeroTime,
              err |-> <<"error decoding JWT claims">>]
        ELSE IF claims.err
        THEN [c |-> d.c, token |-> NoToken, expiry |-> ZeroTime,
              err |-> <<"error parsing JWT claims">>]
        ELSE [c |-> d.c, token |-> accessTokenText,
              expiry |-> Unix(claims.ExpiresAt), err |-> Nil]

\* Client.GetAccessToken: the exchange request goes out with skipAuth
GetAccessToken(c, e) ==
    parseAccessToken(doRequest(c, e, "POST",
                               buildResourceURL(getAccessTokenPath, NoParams, NoParams),
                               [grant_type |-> "client_credentials"], TRUE),
                     e.issued)

\* a store that takes what GetAccessToken returned before looking at the
\* error
storeTokenUnchecked(g) ==
    [c |-> [g.c EXCEPT !.tok = g.token, !.exp = g.expiry], err |-> g.err]

\* a store that replaces the token and keeps the expiry
storeTokenOnly(g) ==
    IF g.err # Nil
    THEN [c |-> g.c, err |-> g.err]
    ELSE [c |-> [g.c EXCEPT !.tok = g.token], err |-> Nil]

\* Client.ensureValidToken, lines 80-87: g is what GetAccessToken returned
storeToken(g) ==
    IF g.err # Nil
    THEN [c |-> g.c, err |-> g.err]
    ELSE [c |-> [g.c EXCEPT !.tok = g.token, !.exp = g.expiry], err |-> Nil]

\* a validation that never refreshes
ensureValidTokenNever(c, e) == [c |-> c, err |-> Nil]

\* Client.ensureValidToken
ensureValidToken(c, e) ==
    IF needsRefresh(c.tok, c.exp, e.now)
    THEN storeToken(GetAccessToken(c, e))
    ELSE [c |-> c, err |-> Nil]

\* a doRequest that sends the request whatever ensureValidToken returned
sendAuthorizedAnyway(v, e, method, urlAddress, data) ==
    httpDo(v.c, e, [method |-> method, url |-> urlAddress, body |-> data,
                    auth |-> TRUE, bearer |-> v.c.tok])

\* Client.doRequest, lines 306-334: v is what ensureValidToken returned; the
\* bearer header carries the token stored after validation
sendAuthorized(v, e, method, urlAddress, data) ==
    IF v.err # Nil
    THEN [c |-> v.c, err |-> v.err]
    ELSE httpDo(v.c, e, [method |-> method, url |-> urlAddress, body |-> data,
                         auth |-> TRUE, bearer |-> v.c.tok])

\* Client.doRequest: with skipAuth no validation happens and no header is set
doRequest(c, e, method, urlAddress, data, skipAuth) ==
    IF skipAuth
    THEN httpDo(c, e, [method |-> method, url |-> urlAddress, body |-> data,
                       auth |-> FALSE, bearer |-> NoToken])
    ELSE sendAuthorized(ensureValidToken(c, e), e, method, urlAddress, data)

------------------------------------------------------------------------------
(* The remote platform.  Its data is a record                              *)
(*   orgList      the organizations the caller can see, in listing order   *)
(*   wsOrg        the organization each workspace belongs to (or NoOrg)    *)
(*   blank        the workspaces whose organization-scoped record comes    *)
(*                without an organizationId                                *)
(*   globalWs     the global workspace listing                             *)
(*   orgUsers     the users of each organization                           *)
(*   assignments  the permission assignments, in listing order             *)
(*   apiUser      the user the client credentials belong to                *)
(*   access       the users with access to each workspace                  *)
(*   bulk         the number of further workspaces of each organization,   *)
(*                which its organization-scoped listing reports after the  *)
(*                ones above                                               *)
(*   link         the kind of next link the global listing writes          *)

OrgIds == {"O1", "O2"}
WsOrder == <<"W1", "W2", "W3">>
WsIds == {WsOrder[i] : i \in 1..Len(WsOrder)}
UserIds == {"U1", "U2"}
NoOrg == ""

\* helpers.go: const ResourcesPageSize uint64 = 50
ResourcesPageSize == 50

\* the remote serves at most this many workspaces per page of the global
\* listing, whatever limit is asked for
ServerPageCap == 1

Min(a, b) == IF a < b THEN a ELSE b

\* fmt.Sprintf("%d", n) and the remote's reading of such a parameter
Itoa(n) == ToString(n)
Atoi(str) == CHOOSE n \in 0..(ResourcesPageSize + Len(WsOrder)) : ToString(n) = str

\* a nil pointer is the empty sequence, a pointer to v is <<v>>
NilPtr == << >>
Ptr(v) == <<v>>

\* GET /organizations
RemoteOrganizations(r) ==
    [i \in 1..Len(r.orgList) |-> [ID |-> r.orgList[i]]]

\* the workspaces of an organization, as the organization-scoped listing
\* reports them
OrgWorkspaces(r, orgId) ==
    LET ws == SelectSeq(WsOrder, LAMBDA w : r.wsOrg[w] = orgId /\ orgId # NoOrg)
    IN  [i \in 1..Len(ws) |->
            [WorkspaceId |-> ws[i],
             OrganizationId |-> IF ws[i] \in r.blank THEN "" ELSE orgId]]
        \o [i \in 1..(IF orgId \in DOMAIN r.bulk THEN r.bulk[orgId] ELSE 0) |->
               [WorkspaceId |-> ToString(i) \o "@" \o orgId, OrganizationId |-> orgId]]

\* POST /workspaces/list_by_organization_id: the rows from rowOffset on, at
\* most pageSize of them
RemoteWorkspacesByOrganization(r, body) ==
    LET all == OrgWorkspaces(r, body.organizationId)
        from == body.pagination.rowOffset
        to == Min(Len(all), from + body.pagination.pageSize)
    IN  [Workspaces |-> SubSeq(all, from + 1, to)]

\* the next link of a response, as the text url.Parse and Query().Get read:
\* whether it parses, and its query parameters. The remote writes the offset
\* of the following page in it ("offset"), or writes a link that does not
\* parse ("unparsable"), that has no offset parameter ("missing") or that
\* has an empty one ("empty")
NextLink(kind, limit, offset) ==
    IF kind = "unparsable"
    THEN Ptr([parses |-> FALSE, query |-> [limit |-> limit, offset |-> offset]])
    ELSE IF kind = "missing"
    THEN Ptr([parses |-> TRUE, query |-> [limit |-> limit]])
    ELSE IF kind = "empty"
    THEN Ptr([parses |-> TRUE, query |-> [limit |-> limit, offset |-> ""]])
    ELSE Ptr([parses |-> TRUE, query |-> [limit |-> limit, offset |-> offset]])

\* GET /workspaces?limit=&offset=: a page and, when more follow, a next
\* link that carries the offset of the following page
RemoteWorkspaces(r, query) ==
    LET from == Atoi(query.offset)
        to == Min(Len(r.globalWs), from + Min(Atoi(query.limit), ServerPageCap))
    IN  [Data |-> [i \in 1..(IF to > from THEN to - from ELSE 0) |->
                      [ID |-> r.globalWs[from + i]]],
         Next |-> IF to < Len(r.globalWs)
                  THEN NextLink(r.link, query.limit, Itoa(to))
                  ELSE NilPtr]

\* GET /users?organizationId=
RemoteUsers(r, query) ==
    LET us == IF "organizationId" \in DOMAIN query
                 /\ query.organizationId \in DOMAIN r.orgUsers
              THEN r.orgUsers[query.organizationId] ELSE << >>
    IN  [i \in 1..Len(us) |-> [ID |-> us[i]]]

\* GET /permissions?userId=&organizationId=: the assignments of the user
\* asked for; of the caller when the request names no user
RemotePermissions(r, query) ==
    LET who == IF "userId" \in DOMAIN query THEN query.userId ELSE r.apiUser
    IN  SelectSeq(r.assignments, LAMBDA a : a.UserID = who)

\* POST /users/list_access_info_by_workspace_id
RemoteUsersWithAccess(r, body) ==
    IF body.workspaceId \in DOMAIN r.access THEN r.access[body.workspaceId] ELSE << >>

------------------------------------------------------------------------------
(* Endpoint adapters. *)

\* an extraction that finds no offset in any link
GetOffsetForTheNextPageFromURLNone(urlPayload) == ""

\* DELETE /workspaces/{workspaceId} and POST /permissions change the
\* remote's data; the other requests read it
serve(r, req) ==
    IF req.method = "DELETE" /\ req.url.path = getWorkspacePath
    THEN [r EXCEPT !.globalWs =
             SelectSeq(@, LAMBDA w : w # req.url.subst.workspaceId)]
    ELSE IF req.method = "POST" /\ req.url.path = listPermissionsPath
    THEN [r EXCEPT !.assignments = Append(@, req.body)]
    ELSE r

\* the remote's data after it served the requests of a call
RECURSIVE served(_, _)
served(r, reqs) ==
    IF reqs = << >> THEN r ELSE served(serve(r, Head(reqs)), Tail(reqs))

\* an extraction that takes the limit parameter of the link
GetOffsetForTheNextPageFromURLLimit(urlPayload) ==
    IF urlPayload = NilPtr THEN ""
    ELSE IF ~urlPayload[1].parses THEN ""
    ELSE IF "limit" \in DOMAIN urlPayload[1].query
         THEN urlPayload[1].query.limit
         ELSE ""

\* an extraction that reads the offset of a link url.Parse rejects
GetOffsetForTheNextPageFromURLUnparsed(urlPayload) ==
    IF urlPayload = NilPtr THEN ""
    ELSE IF "offset" \in DOMAIN urlPayload[1].query
         THEN urlPayload[1].query.offset
         ELSE ""

\* GetOffsetForTheNextPageFromURL: "" for no link, for a link url.Parse
\* rejects and for a link without an offset parameter
GetOffsetForTheNextPageFromURL(urlPayload) ==
    IF urlPayload = NilPtr THEN ""
    ELSE IF ~urlPayload[1].parses THEN ""
    ELSE IF "offset" \in DOMAIN urlPayload[1].query
         THEN urlPayload[1].query.offset
         ELSE ""

\* the ending the adapters share: d is what doRequest returned; on an error
\* the zero values and the error, otherwise the decoded response
decoded(d, zero, res) ==
    IF d.err # Nil
    THEN [c |-> d.c, err |-> d.err] @@ zero
    ELSE [c |-> d.c, err |-> Nil] @@ res

\* an organization listing that first deletes a workspace
ListOrganizationsDeleting(c, e) ==
    decoded(doRequest(c, e, "DELETE",
                      buildResourceURL(getWorkspacePath,
                                       [workspaceId |-> "W1"], NoParams),
                      NoParams, FALSE),
            [data |-> << >>],
            [data |-> RemoteOrganizations(e.remote)])

\* Client.ListOrganizations
ListOrganizations(c, e) ==
    decoded(doRequest(c, e, "GET",
                      buildResourceURL(listOrganizationsPath, NoParams, NoParams),
                      NoParams, FALSE),
            [data |-> << >>],
            [data |-> RemoteOrganizations(e.remote)])

\* Client.ListAllWorkspaces
ListAllWorkspaces(c, e, limit, offset) ==
    LET queryParams == [limit |-> Itoa(limit),
                        offset |-> IF offset = "" THEN "0" ELSE offset]
        resp == RemoteWorkspaces(e.remote, queryParams)
    IN  decoded(doRequest(c, e, "GET",
                          buildResourceURL(listWorkspacesPath, NoParams, queryParams),
                          NoParams, FALSE),
                [data |-> << >>, next |-> ""],
                [data |-> resp.Data,
                 next |-> GetOffsetForTheNextPageFromURL(resp.Next)])

\* Client.ListUsersByOrganization
ListUsersByOrganization(c, e, orgId) ==
    LET queryParams == [organizationId |-> orgId]
    IN  decoded(doRequest(c, e, "GET",
                          buildResourceURL(listUsersPath, NoParams, queryParams),
                          NoParams, FALSE),
                [data |-> << >>],
                [data |-> RemoteUsers(e.remote, queryParams)])

\* Client.ListPermissionsByUserAndOrganization: userId and orgId are given
\* as path parameters of a template that has no placeholder for them
ListPermissionsByUserAndOrganization(c, e, userId, orgId) ==
    LET pathParams == [userId |-> userId, orgId |-> orgId]
        u == buildResourceURL(listPermissionsPath, pathParams, NoParams)
    IN  decoded(doRequest(c, e, "GET", u, NoParams, FALSE),
                [data |-> << >>],
                [data |-> RemotePermissions(e.remote, u.query)])

\* a listing that reports a following page whatever the page holds
ListWorkspacesByOrganizationAlwaysNext(c, e, orgId, pageSize, rowOffset) ==
    LET body == [organizationId |-> orgId,
                 pagination |-> [pageSize |-> pageSize, rowOffset |-> rowOffset]]
        resp == RemoteWorkspacesByOrganization(e.remote, body)
    IN  decoded(doRequest(c, e, "POST",
                          buildResourceURL(listWorkspacesByOrganizationPath,
                                           NoParams, NoParams),
                          body, FALSE),
                [data |-> << >>, next |-> 0],
                [data |-> resp.Workspaces, next |-> rowOffset + pageSize])

\* Client.ListWorkspacesByOrganization
ListWorkspacesByOrganization(c, e, orgId, pageSize, rowOffset) ==
    LET body == [organizationId |-> orgId,
                 pagination |-> [pageSize |-> pageSize, rowOffset |-> rowOffset]]
        resp == RemoteWorkspacesByOrganization(e.remote, body)
    IN  decoded(doRequest(c, e, "POST",
                          buildResourceURL(listWorkspacesByOrganizationPath,
                                           NoParams, NoParams),
                          body, FALSE),
                [data |-> << >>, next |-> 0],
                [data |-> resp.Workspaces,
                 next |-> IF Len(resp.Workspaces) < pageSize
                          THEN 0 ELSE rowOffset + pageSize])

\* Client.ListUsersWithAccessInfoByWorkspace
ListUsersWithAccessInfoByWorkspace(c, e, workspaceId) ==
    LET body == [workspaceId |-> workspaceId]
    IN  decoded(doRequest(c, e, "POST",
                          buildResourceURL(listUsersWithAccessInfoPath,
                                           NoParams, NoParams),
                          body, FALSE),
                [data |-> << >>],
                [data |-> RemoteUsersWithAccess(e.remote, body)])

------------------------------------------------------------------------------
(* The connector: resources, entitlements, grants. *)

organizationResourceTypeId == "organization"
workspaceResourceTypeId == "workspace"
userResourceTypeId == "user"

OrganizationAdmin == "organization_admin"
OrganizationEditor == "organization_editor"
OrganizationRunner == "organization_runner"
OrganizationReader == "organization_reader"
OrganizationMember == "organization_member"

PublicOrganizationPermissionsTypes ==
    <<OrganizationAdmin, OrganizationEditor, OrganizationRunner,
      OrganizationReader, OrganizationMember>>

WorkspaceAdmin == "workspace_admin"
WorkspaceEditor == "workspace_editor"
WorkspaceRunner == "workspace_runner"
WorkspaceReader == "workspace_reader"

PublicWorkspacePermissionsTypes ==
    <<WorkspaceAdmin, WorkspaceEditor, WorkspaceRunner, WorkspaceReader>>

\* slices.Contains
Contains(seq, x) == \E i \in 1..Len(seq) : seq[i] = x

\* a ToLower that leaves the string as it is
ToLowerNot(str) == str

\* strings.ToLower on the permission-type strings the remote may send
ToLower(str) ==
    CASE str = "ORGANIZATION_ADMIN" -> "organization_admin"
      [] str = "Organization_Editor" -> "organization_editor"
      [] str = "Workspace_Admin" -> "workspace_admin"
      [] str = "WORKSPACE_READER" -> "workspace_reader"
      [] str = "OWNER" -> "owner"
      [] OTHER -> str

ResourceId(type, id) == [ResourceType |-> type, Resource |-> id]

\* orgResource
orgResource(org) ==
    [Id |-> ResourceId(organizationResourceTypeId, org.ID), Parent |-> NilPtr]

\* workspaceResource: rs.WithParentResourceID sets the parent it is given
workspaceResource(workspace, parentResourceID) ==
    [Id |-> ResourceId(workspaceResourceTypeId, workspace.ID),
     Parent |-> parentResourceID]

\* userResource
userResource(user) ==
    [Id |-> ResourceId(userResourceTypeId, user.ID), Parent |-> NilPtr]

\* grant.NewGrant(resource, permissionType, principal)
NewGrant(resource, permissionType, principal) ==
    [Resource |-> resource, Entitlement |-> permissionType, Principal |-> principal]

\* ent.NewPermissionEntitlement(resource, permissionType, WithGrantableTo(t))
NewPermissionEntitlement(resource, permissionType, grantableTo) ==
    [Resource |-> resource, Slug |-> permissionType, GrantableTo |-> grantableTo]

------------------------------------------------------------------------------
(* pagination.Bag, as parsePageToken and List use it: a page token is the  *)
(* marshalled stack of page states, the empty token the empty stack.       *)

NoPageToken == << >>

BagUnmarshal(token) == token
BagCurrent(bag) == IF bag = << >> THEN NilPtr ELSE Ptr(bag[Len(bag)])
BagPush(bag, state) == Append(bag, state)
BagPageToken(bag) == IF bag = << >> THEN "" ELSE bag[Len(bag)].Token

\* Bag.NextToken: pop the current state; push it back with the new page
\* token unless that is empty; marshal (an empty stack marshals to "")
BagNextToken(bag, pageToken) ==
    IF bag = << >> THEN NoPageToken
    ELSE IF pageToken = "" THEN SubSeq(bag, 1, Len(bag) - 1)
    ELSE [bag EXCEPT ![Len(bag)].Token = pageToken]

\* a parsePageToken that hands out the empty page token whatever the bag
\* holds
parsePageTokenFromStart(pagToken, resourceID) ==
    LET bag0 == BagUnmarshal(pagToken)
        bag == IF BagCurrent(bag0) = NilPtr
               THEN BagPush(bag0, [ResourceTypeID |-> resourceID.ResourceType,
                                   ResourceID |-> resourceID.Resource,
                                   Token |-> ""])
               ELSE bag0
    IN  [bag |-> bag, token |-> ""]

\* parsePageToken
parsePageToken(pagToken, resourceID) ==
    LET bag0 == BagUnmarshal(pagToken)
        bag == IF BagCurrent(bag0) = NilPtr
               THEN BagPush(bag0, [ResourceTypeID |-> resourceID.ResourceType,
                                   ResourceID |-> resourceID.Resource,
                                   Token |-> ""])
               ELSE bag0
    IN  [bag |-> bag, token |-> BagPageToken(bag)]

------------------------------------------------------------------------------
(* orgBuilder. *)

\* a match on the scope kind alone, not the scope id
firstOrganizationPermissionAnyScopeID(p, organizationID) ==
    LET hits == SelectSeq(p.data, LAMBDA a : a.Scope = "organization")
    IN  IF p.err # Nil
        THEN [c |-> p.c, type |-> "", perms |-> << >>,
              err |-> Wrap("airbyte-connector: failed to list permissions for user", p.err)]
        ELSE IF hits # << >>
        THEN [c |-> p.c, type |-> ToLower(hits[1].PermissionType), perms |-> p.data,
              err |-> Nil]
        ELSE [c |-> p.c, type |-> "", perms |-> p.data, err |-> Nil]

\* orgBuilder.getOrganizationPermissionType, lines 159-170: p is what
\* ListPermissionsByUserAndOrganization returned; perms reports the response
firstOrganizationPermission(p, organizationID) ==
    LET hits == SelectSeq(p.data, LAMBDA a :
                    a.Scope = "organization" /\ a.ScopeID = organizationID)
    IN  IF p.err # Nil
        THEN [c |-> p.c, type |-> "", perms |-> << >>,
              err |-> Wrap("airbyte-connector: failed to list permissions for user", p.err)]
        ELSE IF hits # << >>
        THEN [c |-> p.c, type |-> ToLower(hits[1].PermissionType), perms |-> p.data,
              err |-> Nil]
        ELSE [c |-> p.c, type |-> "", perms |-> p.data, err |-> Nil]

\* orgBuilder.getOrganizationPermissionType
getOrganizationPermissionType(c, e, userID, organizationID) ==
    firstOrganizationPermission(
        ListPermissionsByUserAndOrganization(c, e, userID, organizationID),
        organizationID)

\* a check that lets every resolved type through
orgGrantableAlways(permissionType) == TRUE

\* orgBuilder.Grants, line 127: is the resolved type one to grant
orgGrantable(permissionType) ==
    Contains(PublicOrganizationPermissionsTypes, permissionType)

RECURSIVE orgGrantsLoop(_, _, _, _, _, _)

\* orgBuilder.Grants, lines 122-138, the body of the loop: t is what
\* getOrganizationPermissionType returned for the first of users
orgGrantsStep(t, e, resource, users, rv, trace) ==
    LET user == Head(users)
        trace1 == Append(trace, [UserID |-> user.ID, perms |-> t.perms,
                                 type |-> t.type, err |-> t.err])
    IN  IF t.err # Nil
        THEN [c |-> t.c, rv |-> << >>, next |-> NoPageToken, trace |-> trace1,
              err |-> Wrap("airbyte-connector: failed to get permission type for user", t.err)]
        ELSE IF ~orgGrantable(t.type)
        THEN orgGrantsLoop(t.c, e, resource, Tail(users), rv, trace1)
        ELSE orgGrantsLoop(t.c, e, resource, Tail(users),
                 Append(rv, NewGrant(resource, t.type, userResource(user).Id)),
                 trace1)

\* orgBuilder.Grants, the loop over the listed users; besides the grants
\* it reports, per user, the permissions response and the resolved type
orgGrantsLoop(c, e, resource, users, rv, trace) ==
    IF users = << >>
    THEN [c |-> c, rv |-> rv, next |-> NoPageToken, trace |-> trace, err |-> Nil]
    ELSE orgGrantsStep(
             getOrganizationPermissionType(c, e, Head(users).ID, resource.Id.Resource),
             e, resource, users, rv, trace)

\* orgBuilder.Grants, lines 114-139: u is what ListUsersByOrganization
\* returned
orgGrantsOfUsers(u, e, resource) ==
    IF u.err # Nil
    THEN [c |-> u.c, rv |-> << >>, next |-> NoPageToken, trace |-> << >>,
          err |-> Wrap("airbyte-connector: failed to list users under organization", u.err)]
    ELSE orgGrantsLoop(u.c, e, resource, u.data, << >>, << >>)

\* orgBuilder.Grants
orgBuilderGrants(c, e, resource) ==
    orgGrantsOfUsers(ListUsersByOrganization(c, e, resource.Id.Resource), e, resource)

\* a catalog without the member kind
orgBuilderEntitlementsWithoutMember(resource) ==
    [i \in 1..(Len(PublicOrganizationPermissionsTypes) - 1) |->
        NewPermissionEntitlement(resource, PublicOrganizationPermissionsTypes[i],
                                 userResourceTypeId)]

\* orgBuilder.Entitlements
orgBuilderEntitlements(resource) ==
    [i \in 1..Len(PublicOrganizationPermissionsTypes) |->
        NewPermissionEntitlement(resource, PublicOrganizationPermissionsTypes[i],
                                 userResourceTypeId)]

\* orgBuilder.List, lines 64-84: o is what ListOrganizations returned
orgResources(o) ==
    IF o.err # Nil
    THEN [c |-> o.c, rv |-> << >>, next |-> NoPageToken,
          err |-> Wrap("airbyte-connector: failed to list organizations", o.err)]
    ELSE [c |-> o.c, rv |-> [i \in 1..Len(o.data) |-> orgResource(o.data[i])],
          next |-> NoPageToken, err |-> Nil]

\* orgBuilder.List
orgBuilderList(c, e) == orgResources(ListOrganizations(c, e))

------------------------------------------------------------------------------
(* workspaceBuilder. *)

UnknownParent == "unknown-parent"

\* make(map[string]string)
EmptyMap == << >>

\* m[k] = v
MapSet(m, k, v) == [x \in (DOMAIN m) \cup {k} |-> IF x = k THEN v ELSE m[x]]

RECURSIVE listOrganizationPages(_, _, _, _, _)

\* a traversal that takes the first page of an organization only
collectPageOnce(p, e, orgID, all) ==
    IF p.err # Nil
    THEN [c |-> p.c, all |-> << >>,
          err |-> Wrap("airbyte-connector: failed to list workspaces", p.err)]
    ELSE [c |-> p.c,
          all |-> all \o [i \in 1..Len(p.data) |->
                             [ID |-> p.data[i].WorkspaceId,
                              OrganizationId |-> p.data[i].OrganizationId]],
          err |-> Nil]

\* getAllWorkspacesWithParentOrganizationID, lines 428-447: p is the page
\* ListWorkspacesByOrganization returned
collectPage(p, e, orgID, all) ==
    LET got == all \o [i \in 1..Len(p.data) |->
                          [ID |-> p.data[i].WorkspaceId,
                           OrganizationId |-> p.data[i].OrganizationId]]
    IN  IF p.err # Nil
        THEN [c |-> p.c, all |-> << >>,
              err |-> Wrap("airbyte-connector: failed to list workspaces", p.err)]
        ELSE IF p.next = 0
        THEN [c |-> p.c, all |-> got, err |-> Nil]
        ELSE listOrganizationPages(p.c, e, orgID, p.next, got)

\* getAllWorkspacesWithParentOrganizationID, the inner loop: the pages of
\* one organization, from rowOffset on, until the next row offset is 0
listOrganizationPages(c, e, orgID, rowOffset, all) ==
    collectPage(ListWorkspacesByOrganization(c, e, orgID, ResourcesPageSize, rowOffset),
                e, orgID, all)

\* an outer loop that stops after the first organization
listEachOrganizationFirstOnly(c, e, orgs, all) ==
    IF orgs = << >>
    THEN [c |-> c, all |-> all, err |-> Nil]
    ELSE listOrganizationPages(c, e, Head(orgs).ID, 0, all)

RECURSIVE listEachOrganization(_, _, _, _)

\* getAllWorkspacesWithParentOrganizationID, the outer loop: r is what the
\* inner loop returned for the first of orgs
nextOrganization(r, e, orgs) ==
    IF r.err # Nil
    THEN r
    ELSE listEachOrganization(r.c, e, Tail(orgs), r.all)

\* getAllWorkspacesWithParentOrganizationID, the outer loop over orgs
listEachOrganization(c, e, orgs, all) ==
    IF orgs = << >>
    THEN [c |-> c, all |-> all, err |-> Nil]
    ELSE nextOrganization(listOrganizationPages(c, e, Head(orgs).ID, 0, all), e, orgs)

\* getAllWorkspacesWithParentOrganizationID, lines 420-451: o is what
\* ListOrganizations returned
workspacesOfOrganizations(o, e) ==
    IF o.err # Nil
    THEN [c |-> o.c, all |-> << >>,
          err |-> Wrap("airbyte-connector: failed to list organizations", o.err)]
    ELSE listEachOrganization(o.c, e, o.data, << >>)

\* workspaceBuilder.getAllWorkspacesWithParentOrganizationID
getAllWorkspacesWithParentOrganizationID(c, e) ==
    workspacesOfOrganizations(ListOrganizations(c, e), e)

\* an index that also takes the pairs without an organization id
RECURSIVE populateUnfiltered(_, _)
populateUnfiltered(m, all) ==
    IF all = << >> THEN m
    ELSE populateUnfiltered(MapSet(m, Head(all).ID, Head(all).OrganizationId),
                            Tail(all))

\* workspaceBuilder.List, lines 264-268: the index of the collected pairs
RECURSIVE populate(_, _)
populate(m, all) ==
    IF all = << >> THEN m
    ELSE populate(IF Head(all).OrganizationId # ""
                  THEN MapSet(m, Head(all).ID, Head(all).OrganizationId)
                  ELSE m,
                  Tail(all))

\* a lookup that leaves the parent nil when the index has no entry
parentResourceIDOrNil(index, wsID) ==
    IF wsID \in DOMAIN index /\ index[wsID] # ""
    THEN Ptr(ResourceId(organizationResourceTypeId, index[wsID]))
    ELSE NilPtr

\* workspaceBuilder.List, lines 295-310: the parent of a listed workspace
parentResourceID(index, wsID) ==
    IF wsID \in DOMAIN index /\ index[wsID] # ""
    THEN Ptr(ResourceId(organizationResourceTypeId, index[wsID]))
    ELSE Ptr(ResourceId(organizationResourceTypeId, UnknownParent))

\* workspaceBuilder.List, lines 287-320: l is the page ListAllWorkspaces
\* returned, index the index in use, all what the build phase collected
workspaceResources(l, index, bag, all, phase) ==
    IF l.err # Nil
    THEN [c |-> l.c, index |-> index, rv |-> << >>, next |-> NoPageToken,
          all |-> all, phase |-> phase,
          err |-> Wrap("airbyte-connector: ListAllWorkspaces > failed to list workspaces", l.err)]
    ELSE [c |-> l.c, index |-> index,
          rv |-> [i \in 1..Len(l.data) |->
                     workspaceResource([ID |-> l.data[i].ID],
                                       parentResourceID(index, l.data[i].ID))],
          next |-> BagNextToken(bag, l.next),
          all |-> all, phase |-> phase, err |-> Nil]

\* a page annotated from an index of its own that was never built
workspacePageUnbuilt(c, e, index, pToken, all, phase) ==
    LET pp == parsePageToken(pToken, ResourceId(workspaceResourceTypeId, ""))
    IN  workspaceResources(ListAllWorkspaces(c, e, ResourcesPageSize, pp.token),
                           EmptyMap, pp.bag, all, phase)

\* workspaceBuilder.List, lines 271-320: the page the token names
workspacePage(c, e, index, pToken, all, phase) ==
    LET pp == parsePageToken(pToken, ResourceId(workspaceResourceTypeId, ""))
    IN  workspaceResources(ListAllWorkspaces(c, e, ResourcesPageSize, pp.token),
                           index, pp.bag, all, phase)

\* a List that goes on to the page whatever the build phase returned
workspacesBuiltIgnoringFailure(b, e, pToken) ==
    workspacePage(b.c, e, populate(EmptyMap, b.all), pToken, b.all, "built")

\* workspaceBuilder.List, lines 256-320: b is what the build phase
\* returned
workspacesBuilt(b, e, pToken) ==
    IF b.err # Nil
    THEN [c |-> b.c, index |-> EmptyMap, rv |-> << >>, next |-> NoPageToken,
          all |-> << >>, phase |-> "failed",
          err |-> Wrap("airbyte-connector: getAllWorkspacesWithParentOrganizationID > failed to list workspaces", b.err)]
    ELSE workspacePage(b.c, e, populate(EmptyMap, b.all), pToken, b.all, "built")

\* a List that runs the build phase whatever the token
workspaceBuilderListAlwaysBuild(c, e, index, pToken) ==
    workspacesBuilt(getAllWorkspacesWithParentOrganizationID(c, e), e, pToken)

\* workspaceBuilder.List; index is workspacesWithOrgIDMap when it is called.
\* Besides the results it reports what the build phase collected (all) and
\* whether a build phase ran and how it ended (phase).
workspaceBuilderList(c, e, index, pToken) ==
    IF pToken = NoPageToken
    THEN workspacesBuilt(getAllWorkspacesWithParentOrganizationID(c, e), e, pToken)
    ELSE workspacePage(c, e, index, pToken, << >>, "resume")

\* workspaceBuilder.Entitlements
workspaceBuilderEntitlements(resource) ==
    [i \in 1..Len(PublicWorkspacePermissionsTypes) |->
        NewPermissionEntitlement(resource, PublicWorkspacePermissionsTypes[i],
                                 workspaceResourceTypeId)]

\* a table that also maps organization_member
orgToWorkspacePermMapWithMember ==
    [organization_admin |-> WorkspaceAdmin,
     organization_editor |-> WorkspaceEditor,
     organization_runner |-> WorkspaceRunner,
     organization_reader |-> WorkspaceReader,
     organization_member |-> WorkspaceReader]

\* workspaceBuilder.Grants, lines 359-364
orgToWorkspacePermMap ==
    [organization_admin |-> WorkspaceAdmin,
     organization_editor |-> WorkspaceEditor,
     organization_runner |-> WorkspaceRunner,
     organization_reader |-> WorkspaceReader]

\* a resolution that falls back to the organization permission when the
\* workspace permission is of no known kind
resolveWorkspacePermissionFallingBack(userResponse) ==
    LET own == IF userResponse.WorkspacePermission # NilPtr
               THEN ToLower(userResponse.WorkspacePermission[1].PermissionType)
               ELSE ""
        known == \/ Contains(PublicWorkspacePermissionsTypes, own)
                 \/ Contains(PublicOrganizationPermissionsTypes, own)
    IN  IF known
        THEN own
        ELSE IF userResponse.OrganizationPermission # NilPtr
        THEN LET orgPermType == ToLower(userResponse.OrganizationPermission[1].PermissionType)
             IN  IF orgPermType \in DOMAIN orgToWorkspacePermMap
                 THEN orgToWorkspacePermMap[orgPermType]
                 ELSE ""
        ELSE ""

\* workspaceBuilder.Grants, lines 368-379: the permission type of one user
resolveWorkspacePermission(userResponse) ==
    IF userResponse.WorkspacePermission # NilPtr
    THEN ToLower(userResponse.WorkspacePermission[1].PermissionType)
    ELSE IF userResponse.OrganizationPermission # NilPtr
    THEN LET orgPermType == ToLower(userResponse.OrganizationPermission[1].PermissionType)
         IN  IF orgPermType \in DOMAIN orgToWorkspacePermMap
             THEN orgToWorkspacePermMap[orgPermType]
             ELSE ""
    ELSE ""

\* workspaceBuilder.Grants, line 382: is the resolved type one to grant
workspaceGrantable(permissionType) ==
    \/ Contains(PublicWorkspacePermissionsTypes, permissionType)
    \/ Contains(PublicOrganizationPermissionsTypes, permissionType)

\* a loop that ends at the first user it has nothing to grant to
workspaceGrantsOfUsersUntilGap(u, resource) ==
    LET ok(i) == workspaceGrantable(resolveWorkspacePermission(u.data[i]))
        upto == {n \in 0..Len(u.data) : \A i \in 1..n : ok(i)}
        n == CHOOSE x \in upto : \A y \in upto : y <= x
    IN  IF u.err # Nil
        THEN [c |-> u.c, rv |-> << >>, next |-> NoPageToken,
              err |-> Wrap("airbyte-connector: failed to list users under workspace", u.err)]
        ELSE [c |-> u.c,
              rv |-> [i \in 1..n |->
                         NewGrant(resource, resolveWorkspacePermission(u.data[i]),
                                  userResource([ID |-> u.data[i].UserID]).Id)],
              next |-> NoPageToken, err |-> Nil]

\* workspaceBuilder.Grants, lines 350-400: u is what
\* ListUsersWithAccessInfoByWorkspace returned
workspaceGrantsOfUsers(u, resource) ==
    LET granted == SelectSeq(u.data, LAMBDA userResponse :
                       workspaceGrantable(resolveWorkspacePermission(userResponse)))
    IN  IF u.err # Nil
        THEN [c |-> u.c, rv |-> << >>, next |-> NoPageToken,
              err |-> Wrap("airbyte-connector: failed to list users under workspace", u.err)]
        ELSE [c |-> u.c,
              rv |-> [i \in 1..Len(granted) |->
                         NewGrant(resource, resolveWorkspacePermission(granted[i]),
                                  userResource([ID |-> granted[i].UserID]).Id)],
              next |-> NoPageToken, err |-> Nil]

\* workspaceBuilder.Grants
workspaceBuilderGrants(c, e, resource) ==
    workspaceGrantsOfUsers(
        ListUsersWithAccessInfoByWorkspace(c, e, resource.Id.Resource), resource)

------------------------------------------------------------------------------
(* userBuilder. *)

\* a List that returns nothing, and no error, when the listing failed
userResourcesSwallowing(u) ==
    [c |-> u.c,
     rv |-> [i \in 1..Len(u.data) |-> userResource([ID |-> u.data[i].UserID])],
     next |-> NoPageToken, err |-> Nil]

\* a conversion loop that starts at the second entry
userResourcesSkippingFirst(u) ==
    IF u.err # Nil
    THEN [c |-> u.c, rv |-> << >>, next |-> NoPageToken,
          err |-> Wrap("airbyte-connector: failed to list users", u.err)]
    ELSE [c |-> u.c,
          rv |-> [i \in 1..(IF Len(u.data) = 0 THEN 0 ELSE Len(u.data) - 1) |->
                     userResource([ID |-> u.data[i + 1].UserID])],
          next |-> NoPageToken, err |-> Nil]

\* userBuilder.List, lines 512-532: u is what
\* ListUsersWithAccessInfoByWorkspace returned
userResources(u) ==
    IF u.err # Nil
    THEN [c |-> u.c, rv |-> << >>, next |-> NoPageToken,
          err |-> Wrap("airbyte-connector: failed to list users", u.err)]
    ELSE [c |-> u.c,
          rv |-> [i \in 1..Len(u.data) |-> userResource([ID |-> u.data[i].UserID])],
          next |-> NoPageToken, err |-> Nil]

\* userBuilder.List: without a parent there is nothing to list
userBuilderList(c, e, parent) ==
    IF parent = NilPtr
    THEN [c |-> c, rv |-> << >>, next |-> NoPageToken, err |-> Nil]
    ELSE userResources(
             ListUsersWithAccessInfoByWorkspace(c, e, parent[1].Resource))

\* userBuilder.Entitlements
userBuilderEntitlements(resource) == << >>

\* userBuilder.Grants
userBuilderGrants(c, resource) ==
    [c |-> c, rv |-> << >>, next |-> NoPageToken, err |-> Nil]

------------------------------------------------------------------------------
(* The remote data the model starts from. *)

\* the permission assignments the remote may hold
Assignment(user, type, scope, scopeId) ==
    [UserID |-> user, PermissionType |-> type, Scope |-> scope, ScopeID |-> scopeId]

AssignmentPool ==
    { Assignment("U1", "ORGANIZATION_ADMIN", "organization", "O1"),
      Assignment("U1", "organization_reader", "organization", "O2"),
      Assignment("U1", "workspace_admin", "workspace", "W1"),
      Assignment("U1", "organization_editor", "workspace", "O1"),
      Assignment("U2", "organization_member", "organization", "O1"),
      Assignment("U2", "OWNER", "organization", "O1") }

AssignmentLists ==
    {<< >>} \cup {<<a>> : a \in AssignmentPool}
            \cup {p \in AssignmentPool \X AssignmentPool : p[1] # p[2]}

\* a user's entry in a workspace's access listing
AccessInfo(user, wsPerm, orgPerm) ==
    [UserID |-> user, WorkspacePermission |-> wsPerm, OrganizationPermission |-> orgPerm]

Perm(type) == Ptr([PermissionType |-> type])

WorkspacePerms ==
    {Perm("workspace_admin"), Perm("Workspace_Admin"), Perm("workspace_runner"),
     Perm("organization_admin"), Perm("OWNER"), Perm("")}

OrganizationPerms ==
    {Perm("organization_admin"), Perm("Organization_Editor"),
     Perm("organization_runner"), Perm("organization_reader"),
     Perm("organization_member"), Perm("workspace_admin"), Perm("OWNER")}

AccessLists ==
    LET firsts == {AccessInfo("U1", NilPtr, o) : o \in OrganizationPerms \cup {NilPtr}}
                  \cup {AccessInfo("U1", w, o) :
                            w \in WorkspacePerms, o \in {NilPtr, Perm("organization_admin")}}
        seconds == {AccessInfo("U2", NilPtr, Perm("organization_member")),
                    AccessInfo("U2", Perm("workspace_editor"), NilPtr)}
    IN  {<< >>} \cup {<<a>> : a \in firsts}
                \cup {<<a, b>> : a \in firsts, b \in seconds}

DefaultRemote ==
    [orgList |-> <<"O1", "O2">>,
     wsOrg |-> [w \in WsIds |-> IF w = "W1" THEN "O1" ELSE NoOrg],
     blank |-> {},
     globalWs |-> WsOrder,
     orgUsers |-> [o \in OrgIds |-> IF o = "O1" THEN <<"U1", "U2">> ELSE <<"U2">>],
     assignments |-> << >>,
     apiUser |-> "U1",
     access |-> [w \in WsIds |-> << >>],
     bulk |-> [o \in OrgIds |-> 0],
     link |-> "offset"]

\* remote data that differs in the organizations and their workspaces
WorkspaceRemotes ==
    {[DefaultRemote EXCEPT !.orgList = ol, !.wsOrg = wo, !.blank = bl] :
        ol \in {<< >>, <<"O1">>, <<"O1", "O2">>, <<"O2", "O1">>},
        wo \in {[w \in WsIds |-> IF w = "W1" THEN "O1" ELSE NoOrg],
                [w \in WsIds |-> IF w = "W1" THEN "O1"
                                 ELSE IF w = "W2" THEN "O2" ELSE NoOrg]},
        bl \in {{}, {"W1"}}}

\* remote data with permission assignments and users with access
SyncerRemote ==
    [DefaultRemote EXCEPT
        !.assignments = <<Assignment("U1", "ORGANIZATION_ADMIN", "organization", "O1"),
                          Assignment("U1", "workspace_admin", "workspace", "W1")>>,
        !.access = [w \in WsIds |->
                       IF w = "W1"
                       THEN <<AccessInfo("U1", Perm("workspace_admin"), NilPtr),
                              AccessInfo("U2", NilPtr, Perm("organization_member"))>>
                       ELSE << >>]]

\* remote data that differs in the number of workspaces of the
\* organizations
PagedRemotes ==
    {[DefaultRemote EXCEPT !.wsOrg = wo] :
        wo \in {[w \in WsIds |-> "O1"],
                [w \in WsIds |-> IF w = "W3" THEN "O2" ELSE "O1"],
                [w \in WsIds |-> IF w = "W1" THEN "O1" ELSE NoOrg],
                [w \in WsIds |-> NoOrg]}}

\* the page sizes and row offsets a caller of ListWorkspacesByOrganization
\* asks for
PageSizes == {1, 2, ResourcesPageSize}
RowOffsets == 0..Len(WsOrder)

\* the remote data a listing pass may find changed: both workspaces in
\* their organizations, one of them reported without its organization id,
\* and no organization visible
RebuildRemotes ==
    {[DefaultRemote EXCEPT !.orgList = ol, !.blank = bl,
                           !.wsOrg = [w \in WsIds |->
                                         IF w = "W1" THEN "O1"
                                         ELSE IF w = "W2" THEN "O2" ELSE NoOrg]] :
        ol \in {<< >>, <<"O1", "O2">>}, bl \in {{}, {"W1"}}}
    \ {[DefaultRemote EXCEPT !.orgList = << >>, !.blank = {"W1"},
                             !.wsOrg = [w \in WsIds |->
                                           IF w = "W1" THEN "O1"
                                           ELSE IF w = "W2" THEN "O2" ELSE NoOrg]]}

\* remote data with organizations of many workspaces: fewer than a page,
\* exactly one page, one more, exactly two pages
BulkRemotes ==
    {[DefaultRemote EXCEPT !.orgList = ol,
                           !.wsOrg = [w \in WsIds |-> NoOrg],
                           !.bulk = [o \in OrgIds |-> IF o = "O1" THEN n ELSE m]] :
        ol \in {<<"O1">>, <<"O1", "O2">>},
        n \in {0, ResourcesPageSize - 1, ResourcesPageSize, ResourcesPageSize + 1,
               2 * ResourcesPageSize},
        m \in {1, ResourcesPageSize}}

\* remote data that differs in the permission assignments
PermissionRemotes ==
    {[DefaultRemote EXCEPT !.assignments = al, !.apiUser = u] :
        al \in AssignmentLists, u \in UserIds}

\* remote data that differs in the users with access to workspace W1
AccessRemotes ==
    {[DefaultRemote EXCEPT !.access = [w \in WsIds |-> IF w = "W1" THEN ac ELSE << >>]] :
        ac \in AccessLists}

------------------------------------------------------------------------------
(* Handler calls. *)

\* the tokens the exchange endpoint answers a syncer's refresh with
SyncTokens == {JWT(TokenBuffer + MaxNow + 1), JWT(0), <<Obj, Dot, Raw, Dot, Raw>>}

\* the client state a call starts from
Client == [tok |-> accessToken, exp |-> tokenExpiry, reqs |-> << >>]

Env(failAt, issued) ==
    [now |-> now, failAt |-> failAt, issued |-> issued, remote |-> remote]

\* the record of a call: its inputs, the state it started from, the
\* requests it sent and what it returned
Call(op, arg, e, r) ==
    [op |-> op, arg |-> arg, at |-> now, failAt |-> e.failAt,
     issued |-> e.issued, preTok |-> accessToken, preExp |-> tokenExpiry,
     reqs |-> r.c.reqs, err |-> r.err, out |-> r.rv, next |-> r.next]

\* a call returns r: the client keeps the token state the call left, the
\* remote has served the requests of the call
Return(op, arg, e, r, more) ==
    /\ accessToken' = r.c.tok
    /\ tokenExpiry' = r.c.exp
    /\ remote' = served(remote, r.c.reqs)
    /\ last' = Call(op, arg, e, r) @@ [k \in more |-> r[k]]

InitWith(R) ==
    /\ now = 0
    /\ accessToken = NoToken
    /\ tokenExpiry = ZeroTime
    /\ workspacesWithOrgIDMap = EmptyMap
    /\ remote \in R
    /\ tokens = {}
    /\ sessions = {}
    /\ build = "none"
    /\ last = [op |-> "none"]

Init == InitWith({DefaultRemote})

\* the clock advances between calls
Tick ==
    /\ now < MaxNow
    /\ now' = now + 1
    /\ UNCHANGED <<accessToken, tokenExpiry, workspacesWithOrgIDMap, remote,
                   tokens, sessions, build, last>>

\* Airbyte.Validate, lines 49-54: o is what ListOrganizations returned; the
\* annotations are nil
validated(o) == [c |-> o.c, rv |-> << >>, next |-> NoPageToken, err |-> o.err]

\* Airbyte.Validate
Validate ==
    \E failAt \in 0..MaxFail, issued \in IssuedTokens :
        /\ Return("Validate", "", Env(failAt, issued),
                  validated(ListOrganizations(Client, Env(failAt, issued))), {})
        /\ UNCHANGED <<now, workspacesWithOrgIDMap, tokens, sessions, build>>

\* orgBuilder.List
OrgList ==
    \E failAt \in 0..MaxFail, issued \in SyncTokens :
        /\ Return("OrgList", "", Env(failAt, issued),
                  orgBuilderList(Client, Env(failAt, issued)), {})
        /\ UNCHANGED <<now, workspacesWithOrgIDMap, tokens, sessions, build>>

\* orgBuilder.Grants on an organization resource
OrgGrants ==
    \E failAt \in 0..MaxFail, issued \in SyncTokens, o \in OrgIds :
        /\ Return("OrgGrants", o, Env(failAt, issued),
                  orgBuilderGrants(Client, Env(failAt, issued), orgResource([ID |-> o])),
                  {"trace"})
        /\ UNCHANGED <<now, workspacesWithOrgIDMap, tokens, sessions, build>>

\* workspaceBuilder.List returns r: the package-level index, the page tokens
\* handed out and the state of the listing session follow
ReturnList(pToken, e, r) ==
    /\ Return("WsList", pToken, e, r @@ [indexBefore |-> workspacesWithOrgIDMap],
              {"all", "indexBefore"})
    /\ workspacesWithOrgIDMap' = r.index
    /\ tokens' = IF r.next = NoPageToken THEN tokens ELSE tokens \cup {r.next}
    /\ sessions' = IF r.next = NoPageToken THEN sessions
                   ELSE IF pToken = NoPageToken
                   THEN sessions \cup {<<r.next, r.index>>}
                   ELSE sessions \cup {<<r.next, p[2]>> :
                                          p \in {q \in sessions : q[1] = pToken}}
    /\ build' = IF r.phase = "resume" THEN build ELSE r.phase

\* workspaceBuilder.List with the empty token or a token List returned
WsList ==
    \E failAt \in 0..MaxFail, issued \in SyncTokens,
       pToken \in {NoPageToken} \cup tokens :
        /\ ReturnList(pToken, Env(failAt, issued),
                      workspaceBuilderList(Client, Env(failAt, issued),
                                           workspacesWithOrgIDMap, pToken))
        /\ UNCHANGED now

\* workspaceBuilder.Grants on a workspace resource
WsGrants ==
    \E failAt \in 0..MaxFail, issued \in SyncTokens, w \in WsIds :
        /\ Return("WsGrants", w, Env(failAt, issued),
                  workspaceBuilderGrants(Client, Env(failAt, issued),
                                         workspaceResource([ID |-> w], NilPtr)),
                  {})
        /\ UNCHANGED <<now, workspacesWithOrgIDMap, tokens, sessions, build>>

\* userBuilder.List under a workspace, or without a parent
UserList ==
    \E failAt \in 0..MaxFail, issued \in SyncTokens,
       parent \in {NilPtr} \cup
           {Ptr(ResourceId(workspaceResourceTypeId, w)) : w \in WsIds} :
        /\ Return("UserList", parent, Env(failAt, issued),
                  userBuilderList(Client, Env(failAt, issued), parent), {})
        /\ UNCHANGED <<now, workspacesWithOrgIDMap, tokens, sessions, build>>

\* userBuilder.Grants on a user resource: no request goes out
UserGrants ==
    \E u \in UserIds :
        /\ Return("UserGrants", u, Env(0, NoToken),
                  userBuilderGrants(Client, userResource([ID |-> u])), {})
        /\ UNCHANGED <<now, workspacesWithOrgIDMap, tokens, sessions, build>>

\* what an Entitlements call returns: the entitlements, the empty token and
\* no error; the client is not used
entitled(c, rv) == [c |-> c, rv |-> rv, next |-> NoPageToken, err |-> Nil]

\* orgBuilder.Entitlements on an organization resource
OrgEntitlements ==
    \E o \in OrgIds :
        /\ Return("OrgEntitlements", o, Env(0, NoToken),
                  entitled(Client, orgBuilderEntitlements(orgResource([ID |-> o]))), {})
        /\ UNCHANGED <<now, workspacesWithOrgIDMap, tokens, sessions, build>>

\* workspaceBuilder.Entitlements on a workspace resource
WsEntitlements ==
    \E w \in WsIds, parent \in OrgIds \cup {UnknownParent} :
        /\ Return("WsEntitlements", w, Env(0, NoToken),
                  entitled(Client, workspaceBuilderEntitlements(
                      workspaceResource([ID |-> w],
                          Ptr(ResourceId(organizationResourceTypeId, parent))))), {})
        /\ UNCHANGED <<now, workspacesWithOrgIDMap, tokens, sessions, build>>

\* userBuilder.Entitlements on a user resource
UserEntitlements ==
    \E u \in UserIds :
        /\ Return("UserEntitlements", u, Env(0, NoToken),
                  entitled(Client, userBuilderEntitlements(userResource([ID |-> u]))), {})
        /\ UNCHANGED <<now, workspacesWithOrgIDMap, tokens, sessions, build>>

\* what a direct call of GetAccessToken returns: the token and the expiry
exchanged(g) ==
    [c |-> g.c, rv |-> <<g.token, g.expiry>>, next |-> NoPageToken, err |-> g.err]

\* Client.GetAccessToken, called directly
TokenCall ==
    \E failAt \in 0..MaxFail, issued \in IssuedTokens :
        /\ Return("GetAccessToken", "", Env(failAt, issued),
                  exchanged(GetAccessToken(Client, Env(failAt, issued))), {})
        /\ UNCHANGED <<now, workspacesWithOrgIDMap, tokens, sessions, build>>

\* what the build phase returns: the collected workspaces and the error
built(b) == [c |-> b.c, rv |-> b.all, next |-> NoPageToken, err |-> b.err]

\* workspaceBuilder.getAllWorkspacesWithParentOrganizationID
Build ==
    \E failAt \in 0..MaxFail, issued \in SyncTokens :
        /\ Return("Build", "", Env(failAt, issued),
                  built(getAllWorkspacesWithParentOrganizationID(
                            Client, Env(failAt, issued))), {})
        /\ UNCHANGED <<now, workspacesWithOrgIDMap, tokens, sessions, build>>

\* what a call of a client listing method returns: p is the adapter's
\* result
listed(p) == [c |-> p.c, rv |-> p.data, next |-> p.next, err |-> p.err]

\* Client.ListWorkspacesByOrganization, called with a page size and a row
\* offset
WsByOrg ==
    \E failAt \in 0..MaxFail, issued \in SyncTokens, orgId \in OrgIds,
       pageSize \in PageSizes, rowOffset \in RowOffsets :
        /\ Return("WsByOrg",
                  [orgId |-> orgId, pageSize |-> pageSize, rowOffset |-> rowOffset],
                  Env(failAt, issued),
                  listed(ListWorkspacesByOrganization(Client, Env(failAt, issued),
                                                     orgId, pageSize, rowOffset)),
                  {})
        /\ UNCHANGED <<now, workspacesWithOrgIDMap, tokens, sessions, build>>

\* a new process: NewClient builds a client without a token, and the
\* package-level index is the nil map again; the page tokens the caller was
\* handed outlive the process
Restart ==
    /\ accessToken' = NoToken
    /\ tokenExpiry' = ZeroTime
    /\ workspacesWithOrgIDMap' = EmptyMap
    /\ build' = "none"
    /\ last' = [op |-> "Restart"]
    /\ UNCHANGED <<now, remote, tokens, sessions>>

Next ==
    \/ Tick
    \/ Validate
    \/ OrgList
    \/ OrgGrants
    \/ WsList
    \/ WsGrants
    \/ UserList
    \/ UserGrants
    \/ OrgEntitlements
    \/ WsEntitlements
    \/ UserEntitlements

\* the connector as a whole, on the default remote data
Spec == Init /\ [][Next]_vars

\* the calls of the three syncers and Validate, at one clock value
NextCalls ==
    \/ Validate
    \/ OrgList
    \/ OrgGrants
    \/ WsList
    \/ WsGrants
    \/ UserList
    \/ UserGrants
    \/ OrgEntitlements
    \/ WsEntitlements
    \/ UserEntitlements
SpecCalls == InitWith({SyncerRemote}) /\ [][NextCalls]_vars

\* the organization-scoped workspace listing, page by page
NextPages == WsByOrg
SpecPages == InitWith(PagedRemotes) /\ [][NextPages]_vars

\* the stored credential: Validate calls and direct token exchanges as the
\* clock advances
NextCredential == Tick \/ Validate \/ TokenCall
SpecCredential == Init /\ [][NextCredential]_vars

\* the Entitlements calls of the three syncers, over different remote data
NextEntitlements == OrgEntitlements \/ WsEntitlements \/ UserEntitlements
SpecEntitlements ==
    InitWith(WorkspaceRemotes \cup {SyncerRemote}) /\ [][NextEntitlements]_vars

\* the build phase over organizations of many workspaces
NextBuild == Build
SpecBuild == InitWith(BulkRemotes) /\ [][NextBuild]_vars

\* the token manager: Validate calls as the clock advances
NextAuth == Tick \/ Validate
SpecAuth == Init /\ [][NextAuth]_vars

\* the workspace listing, over the organization and workspace data
NextWs == WsList
SpecWs == InitWith(WorkspaceRemotes) /\ [][NextWs]_vars

\* the organization syncer, over the permission assignments
NextOrg == OrgList \/ OrgGrants
SpecOrg == InitWith(PermissionRemotes) /\ [][NextOrg]_vars

\* the workspace grants, over the access listings
NextWsGrants == WsGrants
SpecWsGrants == InitWith(AccessRemotes) /\ [][NextWsGrants]_vars

\* the two grant paths, over the permission assignments and the access
\* listings
NextGrants == OrgGrants \/ WsGrants
SpecGrants == InitWith(PermissionRemotes \cup AccessRemotes) /\ [][NextGrants]_vars

\* remote data that differs in the next links of the global listing
LinkKinds == {"offset", "unparsable", "missing", "empty"}
LinkRemotes ==
    {[DefaultRemote EXCEPT !.link = k, !.orgList = ol] :
        k \in LinkKinds, ol \in {<< >>, <<"O1", "O2">>}}

\* the workspace listing over these
SpecLinks == InitWith(LinkRemotes) /\ [][NextWs]_vars

\* the user syncer over the access listings
NextUsers == UserList \/ UserGrants
SpecUsers == InitWith(AccessRemotes) /\ [][NextUsers]_vars

\* the remote's organizations and workspaces change between calls
Reorganize ==
    /\ remote' \in RebuildRemotes \ {remote}
    /\ last' = [op |-> "Reorganize"]
    /\ UNCHANGED <<now, accessToken, tokenExpiry, workspacesWithOrgIDMap,
                   tokens, sessions, build>>

NextRebuild == WsList \/ Reorganize

\* listing passes over a remote that changes between them
SpecRebuild == InitWith(RebuildRemotes) /\ [][NextRebuild]_vars

\* the workspace listing across process restarts
NextResume == WsList \/ Restart
SpecResume == InitWith(WorkspaceRemotes) /\ [][NextResume]_vars

------------------------------------------------------------------------------
(* Token manager: C1 - C3. *)

\* the token-exchange requests among the requests of a call
RECURSIVE CountEp(_, _)
CountEp(reqs, ep) ==
    IF reqs = << >> THEN 0
    ELSE (IF Head(reqs).url.path = ep THEN 1 ELSE 0) + CountEp(Tail(reqs), ep)

\* Validate runs ensureValidToken exactly once (one authorized request)
IsValidate == last.op = "Validate"

\* C1 as stated: no exchange when a token is stored and its expiry is more
\* than 30 s after the current time; exactly one exchange when no token is
\* stored or the expiry is within 30 s of (at most 30 s after, or before)
\* the current time.
C1_AsStated ==
    IsValidate =>
        /\ (last.preTok # NoToken /\ last.preExp > last.at + TokenBuffer)
                => CountEp(last.reqs, getAccessTokenPath) = 0
        /\ (last.preTok = NoToken \/ last.preExp <= last.at + TokenBuffer)
                => CountEp(last.reqs, getAccessTokenPath) = 1

\* C1 (amended): ensureValidToken performs no token exchange when a non-empty
\* token is stored and its expiry is at least 30 s after the current time,
\* and exactly one token exchange when no token is stored or the stored
\* expiry is less than 30 s after (or before) the current time.
C1_RefreshExactlyWhenNeeded ==
    IsValidate =>
        /\ (last.preTok # NoToken /\ last.preExp >= last.at + TokenBuffer)
                => CountEp(last.reqs, getAccessTokenPath) = 0
        /\ (last.preTok = NoToken \/ last.preExp < last.at + TokenBuffer)
                => CountEp(last.reqs, getAccessTokenPath) = 1

\* a call that found a stored token expiring in exactly 30 s and kept it
C1_Witness ==
    /\ IsValidate
    /\ last.preTok # NoToken
    /\ last.preExp = last.at + TokenBuffer
    /\ CountEp(last.reqs, getAccessTokenPath) = 0
    /\ Len(last.reqs) = 1

\* the exchange outcomes C2 names
WrongSegmentCount ==
    {NoToken, <<Obj, Dot, TokenBuffer + 1>>,
     <<Obj, Dot, TokenBuffer + 1, Dot, Raw, Dot, Raw>>}
NotBase64URL ==
    {<<Obj, Dot, Bang, Dot, Raw>>, <<Obj, Dot, TokenBuffer + 1, Pad, Dot, Raw>>}
NotJSON == {<<Obj, Dot, Raw, Dot, Raw>>, <<Obj, Dot, Dot, Raw>>}

\* the call sent a token exchange and the transport failed it
ExchangeTransportFailed ==
    /\ last.failAt \in 1..Len(last.reqs)
    /\ last.reqs[last.failAt].url.path = getAccessTokenPath

ExchangeFailed ==
    /\ CountEp(last.reqs, getAccessTokenPath) > 0
    /\ \/ ExchangeTransportFailed
       \/ last.issued \in WrongSegmentCount \cup NotBase64URL \cup NotJSON

\* C2: when the token exchange fails in transport or answers with a token
\* that has not exactly three segments, whose middle segment is not
\* base64url, or whose decoded middle segment is not JSON, the call returns
\* an error and accessToken and tokenExpiry are what they were before.
C2_FailedRefreshStoresNothing ==
    (IsValidate /\ ExchangeFailed) =>
        /\ last.err # Nil
        /\ accessToken = last.preTok
        /\ tokenExpiry = last.preExp

\* a stored credential survives a refresh that got a four-segment token
C2_Witness ==
    /\ IsValidate
    /\ last.preTok # NoToken
    /\ CountEp(last.reqs, getAccessTokenPath) = 1
    /\ last.failAt = 0
    /\ Len(Split(last.issued)) = 4
    /\ last.err = <<"invalid JWT token format">>
    /\ accessToken = last.preTok

\* C3 as stated: whenever ensureValidToken returns without error the stored
\* token is non-empty and its expiry is more than 30 s after the current
\* time.
C3_AsStated ==
    (IsValidate /\ last.err = Nil) =>
        /\ accessToken # NoToken
        /\ tokenExpiry > last.at + TokenBuffer


------------------------------------------------------------------------------
(* Workspace-organization resolver: C4, C5. *)

IsWsList == last.op = "WsList"

\* C4: every workspace resource List returns, on the first page and on every
\* resumed page, carries exactly one parent, of the organization resource
\* type, whose value is an organization id or "unknown-parent"; none has a
\* nil or empty parent.
C4_EveryWorkspaceHasOneParent ==
    IsWsList =>
        \A i \in 1..Len(last.out) :
            /\ Len(last.out[i].Parent) = 1
            /\ last.out[i].Parent[1].ResourceType = "organization"
            /\ last.out[i].Parent[1].Resource \in OrgIds \cup {"unknown-parent"}

\* a resumed page whose workspace got the sentinel parent
C4_Witness ==
    /\ IsWsList
    /\ last.arg # NoPageToken
    /\ last.err = Nil
    /\ Len(last.out) > 0
    /\ last.out[1].Parent = <<[ResourceType |-> "organization",
                               Resource |-> "unknown-parent"]>>

\* the records the organization-scoped listings of the visible
\* organizations hold, one listing after the other
RECURSIVE RemoteLinkage(_, _)
RemoteLinkage(r, orgs) ==
    IF orgs = << >> THEN << >>
    ELSE OrgWorkspaces(r, Head(orgs)) \o RemoteLinkage(r, Tail(orgs))

\* the parent the claim gives workspace w
ExpectedParent(r, w) ==
    LET recs == RemoteLinkage(r, r.orgList)
        linked == {i \in 1..Len(recs) :
                      recs[i].WorkspaceId = w /\ recs[i].OrganizationId # ""}
    IN  IF linked = {} THEN "unknown-parent"
        ELSE recs[CHOOSE i \in linked : TRUE].OrganizationId

\* C5: in a listing session (the latest build phase succeeded and its index
\* is in use), every workspace a page returns has as parent the organization
\* id of the record the build phase collected for it, or "unknown-parent"
\* when no collected record with a non-empty organization id names it; the
\* build phase collects the records of the visible organizations' listings.
C5_ParentIsCollectedOrganization ==
    (IsWsList /\ last.err = Nil /\ build = "built") =>
        /\ last.arg = NoPageToken =>
               {last.all[i] : i \in 1..Len(last.all)}
                   = {[ID |-> rec.WorkspaceId, OrganizationId |-> rec.OrganizationId] :
                         rec \in {RemoteLinkage(remote, remote.orgList)[i] :
                                     i \in 1..Len(RemoteLinkage(remote, remote.orgList))}}
        /\ \A i \in 1..Len(last.out) :
               last.out[i].Parent =
                   <<[ResourceType |-> "organization",
                      Resource |-> ExpectedParent(remote, last.out[i].Id.Resource)]>>

\* organizations O1 and O2, W1 under O1, W2 under no organization: the page
\* that returns W2, after the page that returned W1, gives it the sentinel
C5_Witness ==
    /\ IsWsList /\ last.err = Nil /\ build = "built"
    /\ remote.orgList = <<"O1", "O2">>
    /\ remote.wsOrg["W1"] = "O1" /\ remote.wsOrg["W2"] = NoOrg
    /\ remote.blank = {}
    /\ workspacesWithOrgIDMap = [w \in {"W1"} |-> "O1"]
    /\ last.arg # NoPageToken
    /\ last.out = <<[Id |-> [ResourceType |-> "workspace", Resource |-> "W2"],
                     Parent |-> <<[ResourceType |-> "organization",
                                   Resource |-> "unknown-parent"]>>]>>

------------------------------------------------------------------------------
(* Permission resolver: C6 - C10. *)

IsWsGrants == last.op = "WsGrants"
IsOrgGrants == last.op = "OrgGrants"

WorkspacePermissionSet ==
    {"workspace_admin", "workspace_editor", "workspace_runner", "workspace_reader"}

OrganizationPermissionSet ==
    {"organization_admin", "organization_editor", "organization_runner",
     "organization_reader", "organization_member"}

\* the lower-case form of the permission-type strings of the remote data
LowerCase(str) ==
    LET upper == [ORGANIZATION_ADMIN |-> "organization_admin",
                  Organization_Editor |-> "organization_editor",
                  Workspace_Admin |-> "workspace_admin",
                  WORKSPACE_READER |-> "workspace_reader",
                  OWNER |-> "owner"]
    IN  IF str \in DOMAIN upper THEN upper[str] ELSE str

\* the entitlements of the grants a call emitted for a user, in order
GrantsFor(user) ==
    LET gs == SelectSeq(last.out, LAMBDA g : g.Principal.Resource = user)
    IN  [i \in 1..Len(gs) |-> gs[i].Entitlement]

\* C6 as stated: every grant workspaceBuilder.Grants emits has a permission
\* type of the workspace permission set, i.e. names an entitlement that
\* workspaceBuilder.Entitlements returns for the workspace.
C6_AsStated ==
    IsWsGrants =>
        \A i \in 1..Len(last.out) :
            /\ last.out[i].Entitlement \in WorkspacePermissionSet
            /\ \E k \in 1..Len(workspaceBuilderEntitlements(last.out[i].Resource)) :
                   workspaceBuilderEntitlements(last.out[i].Resource)[k].Slug
                       = last.out[i].Entitlement

\* C7 as stated: orgBuilder.Grants on O emits a grant of type P for user U
\* only if the remote holds an assignment of U with scope "organization",
\* scope id O and a permission type equal to P ignoring case.
C7_AsStated ==
    IsOrgGrants =>
        \A i \in 1..Len(last.out) :
            \E k \in 1..Len(remote.assignments) :
                /\ remote.assignments[k].UserID = last.out[i].Principal.Resource
                /\ remote.assignments[k].Scope = "organization"
                /\ remote.assignments[k].ScopeID = last.arg
                /\ LowerCase(remote.assignments[k].PermissionType)
                       = last.out[i].Entitlement

\* no request of the call failed
NoFailure ==
    /\ last.failAt \notin 1..Len(last.reqs)
    /\ CountEp(last.reqs, getAccessTokenPath) > 0
           => last.issued \in {JWT(n) : n \in ExpValues}

\* C8: organization-scope resolution returns the lower-cased permission type
\* of the first assignment of the response, in response order, whose scope
\* is "organization" and whose scope id is the organization id; assignments
\* of another scope or scope id are skipped; when none matches it returns
\* the empty string and no error.
C8_FirstMatchingAssignment ==
    IsOrgGrants =>
        /\ \A k \in 1..Len(last.trace) :
               LET t == last.trace[k]
                   m == {i \in 1..Len(t.perms) :
                            /\ t.perms[i].Scope = "organization"
                            /\ t.perms[i].ScopeID = last.arg}
               IN  t.err = Nil =>
                       IF m = {}
                       THEN t.type = ""
                       ELSE \E i \in m :
                               /\ \A j \in m : i <= j
                               /\ t.type = LowerCase(t.perms[i].PermissionType)
        /\ NoFailure =>
               /\ last.err = Nil
               /\ Len(last.trace) = Len(remote.orgUsers[last.arg])
               /\ \A k \in 1..Len(last.trace) : last.trace[k].err = Nil

\* a response whose first assignment is of another organization and whose
\* second, upper-case one matches
C8_Witness ==
    /\ IsOrgGrants /\ last.err = Nil /\ last.arg = "O1"
    /\ \E k \in 1..Len(last.trace) :
           /\ Len(last.trace[k].perms) = 2
           /\ last.trace[k].perms[1].ScopeID = "O2"
           /\ last.trace[k].perms[2].PermissionType = "ORGANIZATION_ADMIN"
           /\ last.trace[k].type = "organization_admin"

\* the workspace role an organization role stands for
FallbackTable ==
    [organization_admin |-> "workspace_admin",
     organization_editor |-> "workspace_editor",
     organization_runner |-> "workspace_runner",
     organization_reader |-> "workspace_reader"]

\* C9: for a user without workspacePermission the organization permission
\* type (lower-cased) is mapped through the fixed table and the user is
\* granted the mapped workspace role; for organization_member, for any other
\* value and when both permissions are absent nothing is granted to the user.
C9_OrganizationFallback ==
    (IsWsGrants /\ last.err = Nil) =>
        \A i \in 1..Len(remote.access[last.arg]) :
            LET u == remote.access[last.arg][i]
                src == IF u.OrganizationPermission = NilPtr THEN ""
                       ELSE LowerCase(u.OrganizationPermission[1].PermissionType)
            IN  u.WorkspacePermission = NilPtr =>
                    IF src \in DOMAIN FallbackTable
                    THEN GrantsFor(u.UserID) = <<FallbackTable[src]>>
                    ELSE GrantsFor(u.UserID) = << >>

\* U1 holds organization_member alone and gets nothing, U2 gets its grant
C9_Witness ==
    /\ IsWsGrants /\ last.err = Nil /\ last.arg = "W1"
    /\ Len(remote.access["W1"]) = 2
    /\ remote.access["W1"][1].WorkspacePermission = NilPtr
    /\ remote.access["W1"][1].OrganizationPermission
           = <<[PermissionType |-> "organization_member"]>>
    /\ GrantsFor("U1") = << >>
    /\ Len(last.out) = 1

\* C10: every grant orgBuilder.Grants emits has a permission type of the
\* organization permission set; a user whose resolved type is empty or
\* outside the set gets no grant.
C10_OrganizationGrantsInSet ==
    IsOrgGrants =>
        /\ \A i \in 1..Len(last.out) :
               last.out[i].Entitlement \in OrganizationPermissionSet
        /\ last.err = Nil =>
               \A k \in 1..Len(last.trace) :
                   last.trace[k].type \notin OrganizationPermissionSet
                       => GrantsFor(last.trace[k].UserID) = << >>

\* a user resolved to a type outside the set, and skipped
C10_Witness ==
    /\ IsOrgGrants /\ last.err = Nil
    /\ Len(last.trace) = 2
    /\ last.trace[1].type = "owner"
    /\ last.out = << >>

------------------------------------------------------------------------------
(* Case of permission types: C11. *)

\* the remote data with every permission-type string in lower case
LowerRemote(r) ==
    [r EXCEPT
        !.assignments = [i \in 1..Len(r.assignments) |->
            [r.assignments[i] EXCEPT !.PermissionType = LowerCase(@)]],
        !.access = [w \in DOMAIN r.access |->
            [i \in 1..Len(r.access[w]) |->
                [r.access[w][i] EXCEPT
                    !.WorkspacePermission =
                        IF @ = NilPtr THEN NilPtr
                        ELSE <<[PermissionType |-> LowerCase(@[1].PermissionType)]>>,
                    !.OrganizationPermission =
                        IF @ = NilPtr THEN NilPtr
                        ELSE <<[PermissionType |-> LowerCase(@[1].PermissionType)]>>]]]]

\* the client and the environment the last call started from, over remote
\* data r
ReplayClient == [tok |-> last.preTok, exp |-> last.preExp, reqs |-> << >>]
ReplayEnv(r) ==
    [now |-> last.at, failAt |-> last.failAt, issued |-> last.issued, remote |-> r]

\* C11: on the organization and on the workspace grant path the grants of a
\* call are the grants the same call emits over the remote data with every
\* permission type in lower case, and every emitted permission type is in
\* lower case.
C11_LowerCasedBeforeUse ==
    /\ IsOrgGrants =>
           last.out = orgBuilderGrants(ReplayClient, ReplayEnv(LowerRemote(remote)),
                                       orgResource([ID |-> last.arg])).rv
    /\ IsWsGrants =>
           last.out = workspaceBuilderGrants(ReplayClient, ReplayEnv(LowerRemote(remote)),
                          workspaceResource([ID |-> last.arg], NilPtr)).rv
    /\ (IsOrgGrants \/ IsWsGrants) =>
           \A i \in 1..Len(last.out) :
               last.out[i].Entitlement = LowerCase(last.out[i].Entitlement)

\* "Workspace_Admin" from the remote, workspace_admin in the grant
C11_Witness ==
    /\ IsWsGrants /\ last.err = Nil /\ last.arg = "W1"
    /\ Len(remote.access["W1"]) >= 1
    /\ remote.access["W1"][1].WorkspacePermission
           = <<[PermissionType |-> "Workspace_Admin"]>>
    /\ Len(last.out) >= 1
    /\ last.out[1].Entitlement = "workspace_admin"
    /\ last.out[1].Principal.Resource = remote.access["W1"][1].UserID

------------------------------------------------------------------------------
(* Resolution gaps: C12. *)

\* a listed user with only an organization permission that has no workspace
\* equivalent, or with no permission at all
WsGap(u) ==
    /\ u.WorkspacePermission = NilPtr
    /\ \/ u.OrganizationPermission = NilPtr
       \/ LowerCase(u.OrganizationPermission[1].PermissionType)
              \notin DOMAIN FallbackTable

\* the workspace role a listed user without a gap resolves to
WsResolved(u) ==
    IF u.WorkspacePermission # NilPtr
    THEN LowerCase(u.WorkspacePermission[1].PermissionType)
    ELSE FallbackTable[LowerCase(u.OrganizationPermission[1].PermissionType)]

\* a permissions response without an assignment of the organization
OrgGap(perms, org) ==
    \A i \in 1..Len(perms) :
        ~(perms[i].Scope = "organization" /\ perms[i].ScopeID = org)

\* C12: when no request of a Grants call fails the call returns success; a
\* user with a resolution gap gets no grant, every user of the listing is
\* processed, and a user who resolves to a role of the set gets its grant
\* whatever the users before it resolved to.
C12_GapIsNotAnError ==
    /\ (IsWsGrants /\ NoFailure) =>
           /\ last.err = Nil
           /\ \A i \in 1..Len(remote.access[last.arg]) :
                  LET u == remote.access[last.arg][i]
                  IN  IF WsGap(u)
                      THEN GrantsFor(u.UserID) = << >>
                      ELSE WsResolved(u) \in WorkspacePermissionSet
                               => GrantsFor(u.UserID) = <<WsResolved(u)>>
    /\ (IsOrgGrants /\ NoFailure) =>
           /\ last.err = Nil
           /\ Len(last.trace) = Len(remote.orgUsers[last.arg])
           /\ \A k \in 1..Len(last.trace) :
                  /\ last.trace[k].UserID = remote.orgUsers[last.arg][k]
                  /\ last.trace[k].err = Nil
                  /\ IF OrgGap(last.trace[k].perms, last.arg)
                     THEN GrantsFor(last.trace[k].UserID) = << >>
                     ELSE last.trace[k].type \in OrganizationPermissionSet
                              => GrantsFor(last.trace[k].UserID)
                                     = <<last.trace[k].type>>

\* U1 has neither permission, U2 after it holds workspace_editor and is
\* granted it
C12_Witness ==
    /\ IsWsGrants /\ last.err = Nil /\ last.arg = "W1"
    /\ Len(remote.access["W1"]) = 2
    /\ remote.access["W1"][1].WorkspacePermission = NilPtr
    /\ remote.access["W1"][1].OrganizationPermission = NilPtr
    /\ GrantsFor("U1") = << >>
    /\ GrantsFor("U2") = <<"workspace_editor">>

------------------------------------------------------------------------------
(* The workspace listing as one sequence: C13 - C15. *)

\* the global-workspace-listing requests of the last call
RECURSIVE OffsetsAsked(_)
OffsetsAsked(reqs) ==
    IF reqs = << >> THEN << >>
    ELSE (IF Head(reqs).url.path = listWorkspacesPath
          THEN <<Atoi(Head(reqs).url.query.offset)>> ELSE << >>)
         \o OffsetsAsked(Tail(reqs))

\* the offset a page token names
TokenOffset(token) == Atoi(token[Len(token)].Token)

\* the call ran in a process that never built the index: a fresh instance
FreshInstance == build = "none" /\ last.preTok = NoToken

\* C13: a List call given a token asks for exactly one page of the global
\* listing, the one at the offset the token names, and returns the
\* workspaces from that offset on; the token a call returns names the offset
\* after the last workspace the call returned. So a fresh instance given
\* the token continues after the last page returned and asks for no earlier
\* page.
C13_Resumable ==
    (IsWsList /\ last.err = Nil) =>
        /\ last.arg # NoPageToken =>
               /\ OffsetsAsked(last.reqs) = <<TokenOffset(last.arg)>>
               /\ \A i \in 1..Len(last.out) :
                      last.out[i].Id.Resource
                          = remote.globalWs[TokenOffset(last.arg) + i]
        /\ last.next # NoPageToken =>
               /\ Len(OffsetsAsked(last.reqs)) = 1
               /\ TokenOffset(last.next)
                      = OffsetsAsked(last.reqs)[1] + Len(last.out)
               /\ Len(last.out) > 0

\* a fresh instance, given the token of the first page, returns the second
\* workspace
C13_Witness ==
    /\ IsWsList /\ last.err = Nil /\ FreshInstance
    /\ last.arg # NoPageToken
    /\ TokenOffset(last.arg) = ServerPageCap
    /\ Len(last.out) > 0
    /\ last.out[1].Id.Resource = remote.globalWs[ServerPageCap + 1]

\* the workspace ids of a page of resources
PageIds(rv) == [i \in 1..Len(rv) |-> rv[i].Id.Resource]

\* a listing session without failures: List with the empty token, then List
\* with each returned token until the returned token is empty; ids are the
\* workspaces returned, call after call, calls the number of List calls
RECURSIVE Session(_, _, _, _, _)
Session(c, index, pToken, ids, calls) ==
    LET e == [now |-> now, failAt |-> 0,
              issued |-> JWT(TokenBuffer + MaxNow + 1), remote |-> remote]
        r == workspaceBuilderList(c, e, index, pToken)
    IN  IF r.err # Nil
        THEN [ids |-> ids, calls |-> calls + 1, ended |-> FALSE]
        ELSE IF r.next = NoPageToken
        THEN [ids |-> ids \o PageIds(r.rv), calls |-> calls + 1, ended |-> TRUE]
        ELSE Session(r.c, r.index, r.next, ids \o PageIds(r.rv), calls + 1)

\* C14: a listing session started in any state ends and returns the
\* workspaces of the remote global listing, each once, in listing order (the
\* remote's next links carry the following offset); and a call returns the
\* empty token exactly when its page reaches the end of the listing.
C14_SessionListsEachWorkspaceOnce ==
    /\ Session(Client, workspacesWithOrgIDMap, NoPageToken, << >>, 0).ended
    /\ Session(Client, workspacesWithOrgIDMap, NoPageToken, << >>, 0).ids
           = remote.globalWs
    /\ (IsWsList /\ last.err = Nil) =>
           /\ Len(OffsetsAsked(last.reqs)) = 1
           /\ (last.next = NoPageToken)
                  <=> (OffsetsAsked(last.reqs)[1] + Len(last.out)
                           = Len(remote.globalWs))

\* the call that returned the last page of a session of more than one call
C14_Witness ==
    /\ IsWsList /\ last.err = Nil
    /\ last.arg # NoPageToken
    /\ last.next = NoPageToken
    /\ Len(last.out) > 0
    /\ last.out[Len(last.out)].Id.Resource = remote.globalWs[Len(remote.globalWs)]
    /\ Session(Client, workspacesWithOrgIDMap, NoPageToken, << >>, 0).calls > 1

\* the build-phase requests of the last call
BuildRequests ==
    CountEp(last.reqs, listOrganizationsPath)
        + CountEp(last.reqs, listWorkspacesByOrganizationPath)

\* C15 as stated: a List call with a non-empty token issues exactly one
\* global-workspace-listing request and no build-phase request; the build
\* phase runs once, in the call with the empty token.
C15_AsStated ==
    IsWsList =>
        /\ last.arg # NoPageToken =>
               /\ BuildRequests = 0
               /\ CountEp(last.reqs, listWorkspacesPath) = 1
        /\ (last.arg = NoPageToken /\ last.err = Nil) =>
               CountEp(last.reqs, listOrganizationsPath) = 1

\* C15 (amended): a List call with a non-empty token issues no build-phase
\* request and at most one global-workspace-listing request: exactly one
\* when token validation succeeds, none when the token exchange it needs
\* fails. A successful call with the empty token issues exactly one
\* organization-listing request, before its one global-listing request.
C15_BuildOncePerSession ==
    IsWsList =>
        /\ last.arg # NoPageToken =>
               /\ BuildRequests = 0
               /\ CountEp(last.reqs, listWorkspacesPath)
                      = (IF ExchangeFailed THEN 0 ELSE 1)
        /\ (last.arg = NoPageToken /\ last.err = Nil) =>
               /\ CountEp(last.reqs, listOrganizationsPath) = 1
               /\ CountEp(last.reqs, listWorkspacesPath) = 1
               /\ last.reqs[Len(last.reqs)].url.path = listWorkspacesPath

\* a resumed page that took one global-listing request and nothing else
C15_Witness ==
    /\ IsWsList /\ last.err = Nil
    /\ last.arg # NoPageToken
    /\ Len(last.reqs) = 1
    /\ last.reqs[1].url.path = listWorkspacesPath
    /\ build = "built"

\* the pairs with an organization id among those the last call collected
CollectedPairs ==
    {<<last.all[i].ID, last.all[i].OrganizationId>> :
        i \in {j \in 1..Len(last.all) : last.all[j].OrganizationId # ""}}

\* the index as a set of pairs
IndexPairs == {<<w, workspacesWithOrgIDMap[w]>> : w \in DOMAIN workspacesWithOrgIDMap}

\* C16: after a workspaceBuilder.List call with the empty token succeeds,
\* the index holds exactly the (workspaceId, organizationId) pairs with an
\* organization id that the call's build phase collected: no entry of an
\* earlier pass survives, and no value is empty or the sentinel.
C16_IndexIsThisPassOnly ==
    (IsWsList /\ last.arg = NoPageToken /\ last.err = Nil) =>
        /\ IndexPairs = CollectedPairs
        /\ \A w \in DOMAIN workspacesWithOrgIDMap :
               workspacesWithOrgIDMap[w] \notin {"", UnknownParent}
        /\ \A w \in DOMAIN last.indexBefore :
               w \in DOMAIN workspacesWithOrgIDMap =>
                   <<w, workspacesWithOrgIDMap[w]>> \in CollectedPairs

\* a pass that dropped an entry of the pass before it and collected a pair
\* without an organization id
C16_Witness ==
    /\ IsWsList /\ last.arg = NoPageToken /\ last.err = Nil
    /\ \E w \in DOMAIN last.indexBefore : w \notin DOMAIN workspacesWithOrgIDMap
    /\ \E i \in 1..Len(last.all) : last.all[i].OrganizationId = ""
    /\ workspacesWithOrgIDMap # EmptyMap

\* the transport failed a request of the build phase
BuildRequestFailed ==
    /\ last.failAt \in 1..Len(last.reqs)
    /\ last.reqs[last.failAt].url.path
           \in {listOrganizationsPath, listWorkspacesByOrganizationPath}

\* C17: when the organization listing or a workspaces-by-organization page
\* request fails during the build phase, workspaceBuilder.List returns an
\* error, no resources and the empty next token, issues no global-workspace
\* listing request, and the index holds no entry (so none of the partially
\* completed build).
C17_BuildFailureAborts ==
    (IsWsList /\ BuildRequestFailed) =>
        /\ last.err # Nil
        /\ last.out = << >>
        /\ last.next = NoPageToken
        /\ CountEp(last.reqs, listWorkspacesPath) = 0
        /\ last.failAt = Len(last.reqs)
        /\ workspacesWithOrgIDMap = EmptyMap

\* the build failed at a later workspaces-by-organization request, after the
\* first organization's workspaces had been collected
C17_Witness ==
    /\ IsWsList /\ BuildRequestFailed
    /\ last.reqs[last.failAt].url.path = listWorkspacesByOrganizationPath
    /\ CountEp(last.reqs, listWorkspacesByOrganizationPath) >= 2
    /\ remote.wsOrg["W1"] = Head(remote.orgList)
    /\ build = "failed"

\* the last call was a List or Grants call of one of the three syncers
IsSyncerCall ==
    last.op \in {"OrgList", "OrgGrants", "WsList", "WsGrants", "UserList", "UserGrants"}

\* the transport failed a request of the last call
RequestFailed == last.failAt \in 1..Len(last.reqs)

\* C18: when an endpoint request made during List or Grants of the
\* organization, workspace or user syncer fails, the call returns an error
\* that wraps the transport error under a contextual message, no resources
\* or grants (what it had accumulated is discarded) and the empty next token.
C18_NoFailureSwallowed ==
    (IsSyncerCall /\ RequestFailed) =>
        /\ last.err # Nil
        /\ Len(last.err) >= 2
        /\ last.err[Len(last.err)] = ErrTransport[1]
        /\ last.out = << >>
        /\ last.next = NoPageToken

\* orgBuilder.Grants failed at a later user's permissions request, after it
\* had resolved a grantable type for the first user
C18_Witness ==
    /\ IsOrgGrants /\ RequestFailed
    /\ Len(last.trace) >= 2
    /\ last.trace[1].type \in OrganizationPermissionSet
    /\ last.reqs[last.failAt].url.path = listPermissionsPath
    /\ last.out = << >>

\* the last call was a List, Grants or Validate invocation
IsInvocation == IsSyncerCall \/ IsValidate

\* C19: within one List, Grants or Validate invocation no request is sent
\* again: requests to a listing endpoint differ from one another, except
\* the permissions requests of orgBuilder.Grants, of which there is at most
\* one per listed user; no token exchange is followed at once by another
\* one; and the request the transport fails is the last request of the
\* invocation, which returns an error.
C19_NeverRetries ==
    IsInvocation =>
        /\ \A i, j \in 1..Len(last.reqs) :
               (i < j /\ last.reqs[i] = last.reqs[j])
                   => last.reqs[i].url.path
                          \in {getAccessTokenPath, listPermissionsPath}
        /\ IsOrgGrants =>
               CountEp(last.reqs, listPermissionsPath)
                   <= Len(remote.orgUsers[last.arg])
        /\ \A i \in 1..(Len(last.reqs) - 1) :
               ~(/\ last.reqs[i].url.path = getAccessTokenPath
                 /\ last.reqs[i + 1].url.path = getAccessTokenPath)
        /\ RequestFailed => (last.failAt = Len(last.reqs) /\ last.err # Nil)

\* a listing pass whose organization listing the transport failed, with
\* organizations and pages still to ask for
C19_Witness ==
    /\ IsWsList /\ last.arg = NoPageToken
    /\ RequestFailed
    /\ last.reqs[last.failAt].url.path = listOrganizationsPath
    /\ remote.orgList # << >>
    /\ CountEp(last.reqs, listOrganizationsPath) = 1

\* tokens whose claims segment decodes but does not parse into the claims
UnparsableClaims == NotJSON \cup {<<Obj, Dot, StrExp, Dot, Raw>>}

\* the last call sent a token exchange that failed in transport or was
\* answered with a token GetAccessToken rejects
ValidationFailed ==
    /\ CountEp(last.reqs, getAccessTokenPath) > 0
    /\ \/ ExchangeTransportFailed
       \/ last.issued \in WrongSegmentCount \cup NotBase64URL \cup UnparsableClaims

\* the error GetAccessToken returns for that failure
AuthError ==
    IF ExchangeTransportFailed THEN ErrTransport[1]
    ELSE IF last.issued \in WrongSegmentCount THEN "invalid JWT token format"
    ELSE IF last.issued \in NotBase64URL THEN "error decoding JWT claims"
    ELSE "error parsing JWT claims"

\* C20: when token validation fails before an authorized request (the
\* exchange fails, or its token has not three segments, or claims that do
\* not decode or do not parse), the request is not sent: the failed
\* exchange is the last request of the call, and the call returns the
\* authentication error and no results.
C20_ValidationFailureAborts ==
    (IsInvocation /\ ValidationFailed) =>
        /\ last.reqs[Len(last.reqs)].url.path = getAccessTokenPath
        /\ last.err # Nil
        /\ last.err[Len(last.err)] = AuthError
        /\ last.out = << >>
        /\ last.next = NoPageToken
        /\ ~ExchangeTransportFailed => Len(last.reqs) = 1

\* a syncer call whose validation failed before a later request of the call
C20_Witness ==
    /\ IsSyncerCall /\ ValidationFailed
    /\ Len(last.reqs) >= 3
    /\ last.reqs[Len(last.reqs) - 1].auth
    /\ last.err # Nil

\* what GetAccessToken makes of the token the exchange answered the last
\* call with
IssuedParsed == parseAccessToken([c |-> Client, err |-> Nil], last.issued)

\* the credential stored after the first k requests of the last call
RECURSIVE StoredAfter(_)
StoredAfter(k) ==
    IF k = 0
    THEN [tok |-> last.preTok, exp |-> last.preExp]
    ELSE IF /\ last.reqs[k].url.path = getAccessTokenPath
            /\ k # last.failAt
            /\ IssuedParsed.err = Nil
    THEN [tok |-> IssuedParsed.token, exp |-> IssuedParsed.expiry]
    ELSE StoredAfter(k - 1)

\* the k-th request of the last call is a token exchange
IsExchange(k) == last.reqs[k].url.path = getAccessTokenPath

\* C21: every request to a listing endpoint is preceded by a validation of
\* the stored token (an exchange goes out just before it exactly when the
\* stored token needs a refresh) and carries the token stored at that moment
\* as its bearer credential; a token-exchange request carries no bearer
\* credential and is never itself preceded by an exchange of its own.
C21_ValidationBeforeEveryRequest ==
    IsInvocation =>
        \A i \in 1..Len(last.reqs) :
            IF IsExchange(i)
            THEN /\ ~last.reqs[i].auth
                 /\ last.reqs[i].bearer = NoToken
                 /\ i > 1 => ~IsExchange(i - 1)
                 /\ needsRefresh(StoredAfter(i - 1).tok, StoredAfter(i - 1).exp, last.at)
                 /\ i < Len(last.reqs) => ~IsExchange(i + 1)
            ELSE /\ last.reqs[i].auth
                 /\ last.reqs[i].bearer = StoredAfter(i - 1).tok
                 /\ last.reqs[i].bearer # NoToken
                 /\ \/ i > 1 /\ IsExchange(i - 1)
                    \/ ~needsRefresh(StoredAfter(i - 1).tok, StoredAfter(i - 1).exp, last.at)

\* a call that refreshed before its first listing request and sent its
\* second one, with the refreshed token, without another exchange
C21_Witness ==
    /\ IsInvocation
    /\ Len(last.reqs) >= 3
    /\ IsExchange(1) /\ ~IsExchange(2) /\ ~IsExchange(3)
    /\ last.reqs[3].bearer = last.issued
    /\ last.preTok # last.issued

\* the tokens with three segments whose middle segment decodes to a JSON
\* object with an integer exp
WellFormedTokens == {JWT(n) : n \in ExpValues}

\* the exp claim of a well-formed token
ExpOf(t) == CHOOSE n \in ExpValues : t = JWT(n)

\* C22: for every token with exactly three segments whose middle segment
\* decodes from unpadded base64url to a JSON object with an integer exp,
\* GetAccessToken returns that token unchanged and an expiry equal to exp
\* as seconds since the epoch; a Validate call that refreshed with such a
\* token stores exactly these two values.
C22_ExpiryIsExpClaim ==
    /\ \A t \in WellFormedTokens :
           /\ GetAccessToken(Client, Env(0, t)).err = Nil
           /\ GetAccessToken(Client, Env(0, t)).token = t
           /\ GetAccessToken(Client, Env(0, t)).expiry = ExpOf(t)
    /\ (/\ IsValidate
        /\ CountEp(last.reqs, getAccessTokenPath) > 0
        /\ ~ExchangeTransportFailed
        /\ last.issued \in WellFormedTokens) =>
           /\ accessToken = last.issued
           /\ tokenExpiry = ExpOf(last.issued)

\* a refresh that stored a token with a non-zero exp
C22_Witness ==
    /\ IsValidate
    /\ CountEp(last.reqs, getAccessTokenPath) = 1
    /\ last.issued = JWT(TokenBuffer + 1)
    /\ accessToken = JWT(TokenBuffer + 1)
    /\ tokenExpiry = TokenBuffer + 1
    /\ last.preTok # accessToken

\* next links with an offset parameter: ".../workspaces?limit=10&offset=10"
\* and others
LinksWithOffset ==
    {Ptr([parses |-> TRUE, query |-> [limit |-> l, offset |-> o]]) :
        l \in {"10", "50"}, o \in {"0", "1", "10", "50"}}

\* the global-listing request of the last call, when it sent one
ListingRequest ==
    last.reqs[CHOOSE i \in 1..Len(last.reqs) :
                  last.reqs[i].url.path = listWorkspacesPath]

\* C23: the continuation token is the value of the offset parameter of the
\* response's next link ("10" for ".../workspaces?limit=10&offset=10");
\* without a next link it is empty and the returned page token is the empty
\* one; a request whose incoming offset is empty is sent with offset "0".
C23_OffsetInURL ==
    /\ \A link \in LinksWithOffset :
           GetOffsetForTheNextPageFromURL(link) = link[1].query.offset
    /\ GetOffsetForTheNextPageFromURL(NilPtr) = ""
    /\ (IsWsList /\ CountEp(last.reqs, listWorkspacesPath) > 0) =>
           /\ ListingRequest.url.query.offset
                  = (IF last.arg = NoPageToken THEN "0"
                     ELSE last.arg[Len(last.arg)].Token)
           /\ last.err = Nil =>
                  LET link == RemoteWorkspaces(remote, ListingRequest.url.query).Next
                  IN  IF link = NilPtr
                      THEN last.next = NoPageToken
                      ELSE /\ last.next # NoPageToken
                           /\ last.next[Len(last.next)].Token = link[1].query.offset

\* the first call of a pass was sent with offset "0" and returned the
\* offset of the next link
C23_Witness ==
    /\ IsWsList /\ last.err = Nil
    /\ last.arg = NoPageToken
    /\ ListingRequest.url.query.offset = "0"
    /\ last.next # NoPageToken
    /\ last.next[Len(last.next)].Token = Itoa(ServerPageCap)
    /\ GetOffsetForTheNextPageFromURL(
           Ptr([parses |-> TRUE, query |-> [limit |-> "10", offset |-> "10"]])) = "10"

IsWsByOrg == last.op = "WsByOrg"

\* C24: ListWorkspacesByOrganization reports next offset 0 whenever the page
\* holds fewer items than the page size asked for, rowOffset + pageSize when
\* it holds at least that many, and 0 with no items on an error.
C24_NextRowOffset ==
    IsWsByOrg =>
        IF last.err # Nil
        THEN last.next = 0 /\ last.out = << >>
        ELSE /\ last.out = RemoteWorkspacesByOrganization(remote,
                               [organizationId |-> last.arg.orgId,
                                pagination |-> [pageSize |-> last.arg.pageSize,
                                                rowOffset |-> last.arg.rowOffset]]).Workspaces
             /\ Len(last.out) < last.arg.pageSize => last.next = 0
             /\ Len(last.out) >= last.arg.pageSize =>
                    last.next = last.arg.rowOffset + last.arg.pageSize

\* a full page from a row offset other than 0
C24_Witness ==
    /\ IsWsByOrg /\ last.err = Nil
    /\ last.arg.rowOffset > 0
    /\ Len(last.out) = last.arg.pageSize
    /\ last.next = last.arg.rowOffset + last.arg.pageSize

\* C25: no List, Entitlements, Grants or Validate call, with the token
\* exchanges it makes, changes the remote's organizations, workspaces, users
\* or permission assignments: the remote data is the same after every step.
C25_ReadOnly == [][remote' = remote]_vars

\* a listing pass that sent its POST requests (token exchange and
\* workspaces by organization) and left the data as it was
C25_Witness ==
    /\ IsWsList /\ last.err = Nil
    /\ CountEp(last.reqs, getAccessTokenPath) > 0
    /\ CountEp(last.reqs, listWorkspacesByOrganizationPath) > 0
    /\ \E i \in 1..Len(last.reqs) : last.reqs[i].method = "POST" /\ last.reqs[i].auth
    /\ remote = SyncerRemote

IsTokenCall == last.op = "GetAccessToken"

\* what GetAccessToken makes of the stored token
StoredParsed == parseAccessToken([c |-> Client, err |-> Nil], accessToken)

\* the last call changed the stored credential
CredentialChanged ==
    accessToken # last.preTok \/ tokenExpiry # last.preExp

\* C26: accessToken and tokenExpiry are either both unset or the token and
\* the expiry GetAccessToken derives from one exchange response; a call
\* changes them only by a refresh of ensureValidToken that succeeded, to the
\* token and expiry of that response; a call without an exchange, a failed
\* refresh and a direct GetAccessToken call leave both as they were.
C26_CredentialChangesOnlyByRefresh ==
    /\ \/ accessToken = NoToken /\ tokenExpiry = ZeroTime
       \/ /\ accessToken # NoToken
          /\ StoredParsed.err = Nil
          /\ tokenExpiry = StoredParsed.expiry
    /\ (IsValidate \/ IsTokenCall) =>
           /\ CredentialChanged =>
                  /\ IsValidate
                  /\ CountEp(last.reqs, getAccessTokenPath) = 1
                  /\ ~ExchangeTransportFailed
                  /\ IssuedParsed.err = Nil
                  /\ accessToken = last.issued
                  /\ tokenExpiry = IssuedParsed.expiry
           /\ (\/ IsTokenCall
               \/ CountEp(last.reqs, getAccessTokenPath) = 0
               \/ ExchangeTransportFailed
               \/ IssuedParsed.err # Nil) => ~CredentialChanged

\* a refresh that replaced an earlier token and its expiry
C26_Witness ==
    /\ IsValidate
    /\ last.preTok # NoToken
    /\ accessToken # last.preTok
    /\ tokenExpiry # last.preExp
    /\ tokenExpiry > 0

\* the indexes built by the listing passes that handed out the token of the
\* last call
OwnIndexes == {p[2] : p \in {q \in sessions : q[1] = last.arg}}

\* C27: the index is one variable shared by all listing sessions: a List
\* call with the empty token replaces it by what its build phase collected,
\* and empties it when the build fails, whatever session built it before; a
\* List call with a token leaves it alone and annotates its page from it,
\* that is from the newest build of any session.
C27_SharedIndex ==
    IsWsList =>
        /\ last.arg = NoPageToken =>
               workspacesWithOrgIDMap
                   = (IF build = "failed" THEN EmptyMap
                      ELSE populate(EmptyMap, last.all))
        /\ last.arg # NoPageToken =>
               workspacesWithOrgIDMap = last.indexBefore
        /\ (last.arg # NoPageToken /\ last.err = Nil) =>
               \A i \in 1..Len(last.out) :
                   last.out[i].Parent
                       = parentResourceID(last.indexBefore, last.out[i].Id.Resource)

\* a later page of a session, annotated from the index another session's
\* pass built in between, and differently from the session's own index
C27_Witness ==
    /\ IsWsList /\ last.err = Nil
    /\ last.arg # NoPageToken
    /\ \E own \in OwnIndexes :
           /\ own # last.indexBefore
           /\ \E i \in 1..Len(last.out) :
                  last.out[i].Parent
                      # parentResourceID(own, last.out[i].Id.Resource)

\* the permission kinds of a list of entitlements
Slugs(ents) == [i \in 1..Len(ents) |-> ents[i].Slug]

\* C28: Entitlements returns a fixed catalog per resource type, whatever
\* the remote data: the five organization permission kinds for an
\* organization, the four workspace permission kinds for a workspace, none
\* for a user; the call sends no request and returns the empty next token.
C28_FixedCatalog ==
    /\ last.op = "OrgEntitlements" =>
           /\ Slugs(last.out) = <<"organization_admin", "organization_editor",
                                  "organization_runner", "organization_reader",
                                  "organization_member">>
           /\ \A i \in 1..Len(last.out) :
                  last.out[i].Resource.Id
                      = ResourceId(organizationResourceTypeId, last.arg)
    /\ last.op = "WsEntitlements" =>
           /\ Slugs(last.out) = <<"workspace_admin", "workspace_editor",
                                  "workspace_runner", "workspace_reader">>
           /\ \A i \in 1..Len(last.out) :
                  last.out[i].Resource.Id
                      = ResourceId(workspaceResourceTypeId, last.arg)
    /\ last.op = "UserEntitlements" => last.out = << >>
    /\ last.op \in {"OrgEntitlements", "WsEntitlements", "UserEntitlements"} =>
           /\ last.reqs = << >>
           /\ last.next = NoPageToken
           /\ last.err = Nil
           /\ accessToken = last.preTok

\* the catalog of a workspace on a remote without visible organizations
C28_Witness ==
    /\ last.op = "WsEntitlements"
    /\ Len(last.out) = 4
    /\ remote.orgList = << >>

IsBuild == last.op = "Build"

\* the organization and row offset of each workspaces-by-organization
\* request, in the order sent
RECURSIVE ByOrgRequests(_)
ByOrgRequests(reqs) ==
    IF reqs = << >> THEN << >>
    ELSE (IF Head(reqs).url.path = listWorkspacesByOrganizationPath
          THEN <<[orgId |-> Head(reqs).body.organizationId,
                  rowOffset |-> Head(reqs).body.pagination.rowOffset,
                  pageSize |-> Head(reqs).body.pagination.pageSize]>>
          ELSE << >>)
         \o ByOrgRequests(Tail(reqs))

\* the requests of an exact traversal: for each organization in turn the
\* row offsets 0, P, 2P, ..., floor(n/P) * P
RECURSIVE ExactTraversal(_, _)
ExactTraversal(r, orgs) ==
    IF orgs = << >> THEN << >>
    ELSE [k \in 1..((Len(OrgWorkspaces(r, Head(orgs))) \div ResourcesPageSize) + 1) |->
             [orgId |-> Head(orgs),
              rowOffset |-> (k - 1) * ResourcesPageSize,
              pageSize |-> ResourcesPageSize]]
         \o ExactTraversal(r, Tail(orgs))

IsPrefix(a, b) == Len(a) <= Len(b) /\ a = SubSeq(b, 1, Len(a))

\* C29: for each organization in turn the build phase asks for the row
\* offsets 0, P, 2P, ... in increasing order, floor(n/P) + 1 requests for an
\* organization of n workspaces and no page twice, collects all its
\* workspaces and moves on; a call that fails has sent a prefix of these
\* requests.
C29_ExactTraversal ==
    IsBuild =>
        /\ IsPrefix(ByOrgRequests(last.reqs), ExactTraversal(remote, remote.orgList))
        /\ last.err = Nil =>
               /\ ByOrgRequests(last.reqs) = ExactTraversal(remote, remote.orgList)
               /\ [i \in 1..Len(last.out) |->
                      [WorkspaceId |-> last.out[i].ID,
                       OrganizationId |-> last.out[i].OrganizationId]]
                      = RemoteLinkage(remote, remote.orgList)

\* a build over a first organization of exactly two pages: three requests
\* for it, the last one answered with an empty page, then the second
\* organization
C29_Witness ==
    /\ IsBuild /\ last.err = Nil
    /\ remote.orgList = <<"O1", "O2">>
    /\ remote.bulk["O1"] = 2 * ResourcesPageSize
    /\ Len(ByOrgRequests(last.reqs)) = 4
    /\ ByOrgRequests(last.reqs)[3].rowOffset = 2 * ResourcesPageSize
    /\ ByOrgRequests(last.reqs)[4].orgId = "O2"
    /\ Len(last.out) = 2 * ResourcesPageSize + remote.bulk["O2"]

------------------------------------------------------------------------------
(* Precedence of the workspace permission: C30. *)

\* the remote data with the organization permission of the i-th user listed
\* for workspace w replaced by o
WithOrganizationPermission(r, w, i, o) ==
    [r EXCEPT !.access[w][i].OrganizationPermission = o]

\* the organization permissions a listed user may carry, none included
AnyOrganizationPermission == OrganizationPerms \cup {NilPtr}

\* the i-th user listed for the workspace of the last call carries a
\* workspace permission
HasWorkspacePermission(i) ==
    remote.access[last.arg][i].WorkspacePermission # NilPtr

\* the workspace permission of that user is of no known kind
UnrecognizedWorkspacePermission(i) ==
    LET t == LowerCase(remote.access[last.arg][i].WorkspacePermission[1].PermissionType)
    IN  /\ t \notin WorkspacePermissionSet
        /\ t \notin OrganizationPermissionSet

\* C30: in a workspace grant call, for every listed user that carries a
\* workspace permission the grants of the call are the same whatever the
\* organization permission of that user is, and a user whose workspace
\* permission is of no known kind gets no grant, whatever the organization
\* permission.
C30_WorkspacePermissionTakesPrecedence ==
    (IsWsGrants /\ last.err = Nil) =>
        \A i \in 1..Len(remote.access[last.arg]) :
            HasWorkspacePermission(i) =>
                /\ \A o \in AnyOrganizationPermission :
                       workspaceBuilderGrants(ReplayClient,
                           ReplayEnv(WithOrganizationPermission(remote, last.arg, i, o)),
                           workspaceResource([ID |-> last.arg], NilPtr)).rv = last.out
                /\ UnrecognizedWorkspacePermission(i) =>
                       GrantsFor(remote.access[last.arg][i].UserID) = << >>

\* workspace permission "OWNER" beside organization_admin: no grant
C30_Witness ==
    /\ IsWsGrants /\ last.err = Nil /\ last.arg = "W1"
    /\ Len(remote.access["W1"]) >= 1
    /\ remote.access["W1"][1].WorkspacePermission = <<[PermissionType |-> "OWNER"]>>
    /\ remote.access["W1"][1].OrganizationPermission
           = <<[PermissionType |-> "organization_admin"]>>
    /\ GrantsFor(remote.access["W1"][1].UserID) = << >>

------------------------------------------------------------------------------
(* The parents a fresh instance attaches: C31. *)

\* C31 as stated: a List call resumed with a token on a fresh instance
\* gives every workspace of its page that the session's build phase linked
\* to an organization the parent the building instance would give it.
C31_AsStated ==
    (IsWsList /\ last.err = Nil /\ last.arg # NoPageToken /\ FreshInstance) =>
        \A own \in OwnIndexes :
            \A i \in 1..Len(last.out) :
                last.out[i].Id.Resource \in DOMAIN own =>
                    last.out[i].Parent
                        = parentResourceID(own, last.out[i].Id.Resource)

------------------------------------------------------------------------------
(* Grants against the entitlement catalog: C32. *)

\* the entitlements Entitlements returns for the resource of a grant
CatalogOf(resource) ==
    IF resource.Id.ResourceType = organizationResourceTypeId
    THEN orgBuilderEntitlements(resource)
    ELSE workspaceBuilderEntitlements(resource)

\* the grant names an entitlement of its resource that is declared grantable
\* to the user resource type
NamesGrantableEntitlement(g) ==
    \E i \in 1..Len(CatalogOf(g.Resource)) :
        /\ CatalogOf(g.Resource)[i].Slug = g.Entitlement
        /\ CatalogOf(g.Resource)[i].GrantableTo = userResourceTypeId

\* C32 as stated: every grant emitted on an organization or a workspace has
\* a principal of the user resource type and names an entitlement of its
\* resource that is declared grantable to the user resource type.
C32_AsStated ==
    ((IsOrgGrants \/ IsWsGrants) /\ last.err = Nil) =>
        \A i \in 1..Len(last.out) :
            /\ last.out[i].Principal.ResourceType = userResourceTypeId
            /\ NamesGrantableEntitlement(last.out[i])

------------------------------------------------------------------------------
(* Tokens without exp or with a past exp: C33. *)

\* a three-segment token whose claims are an object without exp
NoExpToken == <<Obj, Dot, Obj, Dot, Raw>>

\* the exchange of the last call answered with a token without exp, or with
\* an exp that is not after the time of the call
IssuedStale ==
    \/ last.issued = NoExpToken
    \/ \E n \in ExpValues : n <= last.at /\ last.issued = JWT(n)

\* the expiry GetAccessToken derives for such a token
StaleExpiry == IF last.issued = NoExpToken THEN 0 ELSE ExpOf(last.issued)

------------------------------------------------------------------------------
(* The refresh condition at its boundary: C34. *)

\* C34: a call that validates the token sends a token exchange exactly when
\* no token is stored or the current time plus 30 seconds is strictly after
\* the stored expiry, and then sends one: a token expiring exactly 30
\* seconds from now is kept, one expiring any earlier is replaced.
C34_ExactRefreshCondition ==
    IsValidate =>
        /\ CountEp(last.reqs, getAccessTokenPath) \in {0, 1}
        /\ CountEp(last.reqs, getAccessTokenPath) = 1
               <=> (last.preTok = NoToken \/ last.at + TokenBuffer > last.preExp)
        /\ (last.preTok # NoToken /\ last.preExp = last.at + TokenBuffer) =>
               /\ accessToken = last.preTok
               /\ tokenExpiry = last.preExp
        /\ (last.preTok # NoToken /\ last.preExp < last.at + TokenBuffer) =>
               IsExchange(1)

\* a stored token expiring 29 seconds from now is replaced
C34_Witness ==
    /\ IsValidate /\ last.err = Nil
    /\ last.preTok # NoToken
    /\ last.preExp = last.at + TokenBuffer - 1
    /\ CountEp(last.reqs, getAccessTokenPath) = 1
    /\ tokenExpiry > last.preExp

------------------------------------------------------------------------------
(* Next links without a usable offset: C35. *)

\* the next link of the response to the global-listing request of the last
\* call
ResponseLink == RemoteWorkspaces(remote, ListingRequest.url.query).Next

\* a link that url.Parse rejects, that has no offset parameter or that has
\* an empty one
Unusable(link) ==
    /\ link # NilPtr
    /\ \/ ~link[1].parses
       \/ "offset" \notin DOMAIN link[1].query
       \/ link[1].query.offset = ""

\* C35: a next link that does not parse as a URL, or that has no offset
\* parameter or an empty one, yields the empty continuation token; a List
\* call whose response carries such a link returns the page of the response
\* with the empty next token and no error, though further workspaces exist
\* remotely.
C35_UnusableLinkEndsSession ==
    /\ \A k \in LinkKinds \ {"offset"} :
           /\ Unusable(NextLink(k, "50", "1"))
           /\ GetOffsetForTheNextPageFromURL(NextLink(k, "50", "1")) = ""
    /\ (IsWsList /\ CountEp(last.reqs, listWorkspacesPath) > 0
            /\ last.failAt \notin 1..Len(last.reqs)) =>
           (Unusable(ResponseLink) =>
               /\ last.err = Nil
               /\ last.next = NoPageToken
               /\ PageIds(last.out)
                      = [i \in 1..Len(last.out) |->
                            RemoteWorkspaces(remote, ListingRequest.url.query).Data[i].ID]
               /\ Len(last.out)
                      = Len(RemoteWorkspaces(remote, ListingRequest.url.query).Data)
               /\ Atoi(ListingRequest.url.query.offset) + Len(last.out)
                      < Len(remote.globalWs))

\* the first page came with a link without an offset parameter: W1 is
\* returned, the token is empty, W2 and W3 are never listed
C35_Witness ==
    /\ IsWsList /\ last.err = Nil
    /\ remote.link = "missing"
    /\ last.arg = NoPageToken
    /\ PageIds(last.out) = <<remote.globalWs[1]>>
    /\ last.next = NoPageToken
    /\ Len(remote.globalWs) > 1

------------------------------------------------------------------------------
(* The user syncer: C36. *)

IsUserList == last.op = "UserList"
IsUserGrants == last.op = "UserGrants"

\* the requests of the last call other than token exchanges
OwnRequests ==
    SelectSeq(last.reqs, LAMBDA q : q.url.path # getAccessTokenPath)

====
